---- MODULE Spec2Model ----
(***************************************************************************)
(* Verification model of the flipperzero-sensors repository:               *)
(*   - the ZPHS01B serial frame decoder and its air-quality classifier     *)
(*     (src/src/bin/zphs01b.rs),                                           *)
(*   - the typed publish/subscribe wrappers over the host FuriPubSub       *)
(*     (src/src/furi/pubsub.rs, src/src/furi_pubsub.rs) and the            *)
(*     nicla-sense-env application that uses the latter.                   *)
(***************************************************************************)
EXTENDS Integers, Sequences, FiniteSets, TLC

VARIABLES
    \* ---- ZPHS01B decoder (zphs01b.rs) ----
    scenario,       \* the frames the sensor transmits (descriptors)
    stream,         \* the bytes on the wire
    pos,            \* how many bytes the transport has delivered
    buffer,         \* heapless::Vec<u8, RESPONSE_SIZE> of the closure
    VALUES,         \* static VALUES: Mutex<Measurement>
    SAMPLE_COUNT,   \* static SAMPLE_COUNT: AtomicU32
    notifications,  \* tiers passed to notification_service.notify, in order
    updates,        \* number of view_port_update calls
    published,      \* Measurements stored into VALUES, in order
    last,           \* what the last handler invocation did
    \* ---- classifier on its own ----
    input,          \* a Measurement
    tier,           \* air_quality_index(input), once computed
    \* ---- host FuriPubSub and its wrappers ----
    busState,       \* per host bus: "host" (firmware-owned), "unalloc", "alloc", "freed"
    regs,           \* the host's subscription items: [bus, token, ctx, owner]
    freeCount,      \* calls of furi_pubsub_free
    owned,          \* the OwnedPubSub value: "none", "alive", "dropped"
    cbState,        \* per callback object: "unborn", "alive", "dead"
    calls,          \* per callback object: times it ran
    subs,           \* per Subscription value: [state, pubsub, raw, cb]
    pubCount,       \* per host bus: events published
    ub,             \* the trampoline dereferenced a dead callback
    lateEvent,      \* an event was published on a bus after a Subscription to it was dropped
    npc,            \* nicla-sense-env main: where it is
    printed,        \* nicla-sense-env main: event type its callback printed last
    \* ---- zphs01b: the decoder and the render callback side by side ----
    lock,           \* who holds the Mutex of VALUES: "free", "decoder", "render"
    handler,        \* the running closure: [pc, last_aqi, v]
    rpc,            \* draw_callback: where it is
    shown,          \* the values draw_callback has read for the screen
    draws,          \* completed draw_callback calls
    \* ---- zphs01b: the main loop ----
    mpc,            \* main: where it is
    events,         \* event_queue: the input events waiting
    tx,             \* the commands written to the serial line, in order
    passes,         \* passes of the main loop so far
    receiver,       \* the serial receiver: "idle", "running", "stopped"
    view_port,      \* the view port: "added", "disabled", "removed", "freed"
    freed_update,   \* view_port_update was called on the freed view port
    \* ---- records (furi/record.rs, furi_record.rs) ----
    handles,        \* per record handle value: [state, name]
    holders,        \* per record name: the host's [opens, closes]
    wrappers,       \* the PubSub values obtained from records: [handle, bus]
    \* ---- sgp30.rs ----
    sgp_STATE,      \* static STATE: Mutex<State>
    CURRENT_SAMPLE, \* static CURRENT_SAMPLE: AtomicU32
    sgp_updates,    \* number of view_port_update calls
    sgp_reads,      \* calls of read_sgp30 so far
    sgp_last,       \* the measurement of the last read_sgp30 call
    sgp_screen,     \* what draw_callback drew last
    \* ---- nicla_sense_env.rs ----
    status_reg,     \* the board's status register (0x00)
    mode_set,       \* the modes set since the board last changed the register
    mode_got,       \* what the last outdoor_/indoor_sensor_mode call returned
    rmox            \* the running outdoor_rmox/indoor_rmox/indoor_rcda call

decoderVars == <<scenario, stream, pos, buffer, VALUES, SAMPLE_COUNT,
                 notifications, updates, published, last>>
aqiVars == <<input, tier>>
pubsubVars == <<busState, regs, freeCount, owned, cbState, calls, subs,
                pubCount, ub, lateEvent, npc, printed>>
appVars == <<lock, handler, rpc, shown, draws>>
loopVars == <<mpc, events, tx, passes, receiver, view_port, freed_update>>
recordVars == <<handles, holders, wrappers>>
sgpVars == <<sgp_STATE, CURRENT_SAMPLE, sgp_updates, sgp_reads, sgp_last, sgp_screen>>
envVars == <<status_reg, mode_set, mode_got, rmox>>
vars == <<decoderVars, aqiVars, pubsubVars, appVars, loopVars, recordVars, sgpVars,
          envVars>>

(***************************************************************************)
(* Program constants                                                       *)
(***************************************************************************)
RESPONSE_SIZE == 26
START_BIT == 255
CMD_ECHO == 134

\* u8 arithmetic wraps modulo 2^8
U8 == 256

Min(a, b) == IF a < b THEN a ELSE b

(***************************************************************************)
(* IEEE-754 binary64 arithmetic, as far as the classifier needs it.        *)
(* A positive double is [bits, exp]: bits is its significand, least        *)
(* significant bit first, and its value is bits * 2^exp.  Zero has no      *)
(* bits.                                                                   *)
(***************************************************************************)
RECURSIVE NatToBits(_)
NatToBits(k) == IF k = 0 THEN <<>> ELSE <<k % 2>> \o NatToBits(k \div 2)

RECURSIVE NibblesToBits(_)
\* nibbles most significant first -> bits least significant first
NibblesToBits(ns) ==
    IF ns = <<>> THEN <<>>
    ELSE LET n == ns[Len(ns)]
         IN  <<n % 2, (n \div 2) % 2, (n \div 4) % 2, (n \div 8) % 2>>
             \o NibblesToBits(SubSeq(ns, 1, Len(ns) - 1))

RECURSIVE StripZeros(_)
\* drop the leading (most significant) zero bits
StripZeros(b) ==
    IF b = <<>> THEN <<>>
    ELSE IF b[Len(b)] = 0 THEN StripZeros(SubSeq(b, 1, Len(b) - 1))
    ELSE b

\* The double nearest to a literal: 53 significant bits (the leading nibble
\* holds the implicit one) and the exponent of the least significant bit.
F64(nibbles, e) == [bits |-> StripZeros(NibblesToBits(nibbles)), exp |-> e]

MANT_BITS == 53

RECURSIVE MulBits(_, _, _)
\* bits * n + carry, exactly
MulBits(b, n, carry) ==
    IF b = <<>> THEN NatToBits(carry)
    ELSE LET v == Head(b) * n + carry
         IN  <<v % 2>> \o MulBits(Tail(b), n, v \div 2)

RECURSIVE IncBits(_)
IncBits(b) ==
    IF b = <<>> THEN <<1>>
    ELSE IF Head(b) = 0 THEN <<1>> \o Tail(b)
    ELSE <<0>> \o IncBits(Tail(b))

\* Round an exact product to 53 significant bits, ties to even.
RoundF64(p, e) ==
    IF Len(p) <= MANT_BITS THEN [bits |-> p, exp |-> e]
    ELSE LET s      == Len(p) - MANT_BITS
             kept   == SubSeq(p, s + 1, Len(p))
             guard  == p[s]
             sticky == \E i \in 1..(s - 1) : p[i] = 1
             up     == guard = 1 /\ (sticky \/ kept[1] = 1)
         IN  [bits |-> IF up THEN IncBits(kept) ELSE kept, exp |-> e + s]

\* `c * (n as f64)` for a u16 n: the conversion of n is exact, the product is
\* rounded once.
F64MulU16(c, n) ==
    IF n = 0 THEN [bits |-> <<>>, exp |-> 0]
    ELSE RoundF64(MulBits(c.bits, n, 0), c.exp)

Zeros(k) == [i \in 1..k |-> 0]

RECURSIVE GtBits(_, _, _)
GtBits(a, b, i) ==
    IF i = 0 THEN FALSE
    ELSE IF a[i] # b[i] THEN a[i] > b[i]
    ELSE GtBits(a, b, i - 1)

\* x > y on doubles
F64Gt(x, y) ==
    IF x.bits = <<>> THEN FALSE
    ELSE IF y.bits = <<>> THEN TRUE
    ELSE LET emin == Min(x.exp, y.exp)
             a    == Zeros(x.exp - emin) \o x.bits
             b    == Zeros(y.exp - emin) \o y.bits
         IN  IF Len(a) # Len(b) THEN Len(a) > Len(b)
             ELSE GtBits(a, b, Len(a))

\* x = y on doubles
F64Eq(x, y) == ~F64Gt(x, y) /\ ~F64Gt(y, x)

RECURSIVE SubBits(_, _, _)
\* a - b - borrow, exactly, for a >= b + borrow (b no longer than a)
SubBits(a, b, borrow) ==
    IF a = <<>> THEN <<>>
    ELSE LET bi == IF b = <<>> THEN 0 ELSE Head(b)
             v  == Head(a) - bi - borrow
         IN  <<v % 2>> \o SubBits(Tail(a), IF b = <<>> THEN <<>> ELSE Tail(b),
                                  IF v < 0 THEN 1 ELSE 0)

\* `x - y` for doubles x, y >= 0: the exact difference rounded once.  The
\* result is signed: [neg, bits, exp].
F64Sub(x, y) ==
    IF F64Eq(x, y) THEN [neg |-> FALSE, bits |-> <<>>, exp |-> 0]
    ELSE IF x.bits = <<>> THEN [neg |-> TRUE, bits |-> y.bits, exp |-> y.exp]
    ELSE IF y.bits = <<>> THEN [neg |-> FALSE, bits |-> x.bits, exp |-> x.exp]
    ELSE LET emin == Min(x.exp, y.exp)
             a    == Zeros(x.exp - emin) \o x.bits
             b    == Zeros(y.exp - emin) \o y.bits
             neg  == F64Gt(y, x)
             d    == IF neg THEN SubBits(b, a, 0) ELSE SubBits(a, b, 0)
             r    == RoundF64(StripZeros(d), emin)
         IN  [neg |-> neg, bits |-> r.bits, exp |-> r.exp]

\* the literals of zphs01b.rs
F_0_001 == F64(<<1, 0, 6, 2, 4, 13, 13, 2, 15, 1, 10, 9, 15, 12>>, -62)
F_50_0 == F64(<<1, 9, 0, 0, 0, 0, 0, 0, 0, 0, 0, 0, 0, 0>>, -47)
F_0_01 == F64(<<1, 4, 7, 10, 14, 1, 4, 7, 10, 14, 1, 4, 7, 11>>, -59)
F_0_1 == F64(<<1, 9, 9, 9, 9, 9, 9, 9, 9, 9, 9, 9, 9, 10>>, -56)

AirQualityIndex == <<"Good", "Moderate", "Sensitive", "Unhealthy", "VeryUnhealthy", "Hazardous">>

Tiers == {AirQualityIndex[i] : i \in 1..Len(AirQualityIndex)}

\* Thresholds of air_quality_index, most severe first; pm_2_5 and pm_10 are
\* compared as u16, o3, co and no2 as f64.
Thresholds == <<
    [tier |-> "Hazardous", pm_2_5 |-> 250, pm_10 |-> 424,
     o3  |-> F64(<<1, 9, 9, 9, 9, 9, 9, 9, 9, 9, 9, 9, 9, 10>>, -55),
     co  |-> F64(<<1, 14, 0, 0, 0, 0, 0, 0, 0, 0, 0, 0, 0, 0>>, -48),
     no2 |-> F64(<<1, 3, 15, 11, 14, 7, 6, 12, 8, 11, 4, 3, 9, 6>>, -52)],
    [tier |-> "VeryUnhealthy", pm_2_5 |-> 150, pm_10 |-> 354,
     o3  |-> F64(<<1, 10, 14, 1, 4, 7, 10, 14, 1, 4, 7, 10, 14, 1>>, -56),
     co  |-> F64(<<1, 14, 12, 12, 12, 12, 12, 12, 12, 12, 12, 12, 12, 13>>, -49),
     no2 |-> F64(<<1, 4, 12, 4, 9, 11, 10, 5, 14, 3, 5, 3, 15, 8>>, -53)],
    [tier |-> "Unhealthy", pm_2_5 |-> 55, pm_10 |-> 254,
     o3  |-> F64(<<1, 5, 12, 2, 8, 15, 5, 12, 2, 8, 15, 5, 12, 3>>, -56),
     co  |-> F64(<<1, 8, 12, 12, 12, 12, 12, 12, 12, 12, 12, 12, 12, 13>>, -49),
     no2 |-> F64(<<1, 7, 0, 10, 3, 13, 7, 0, 10, 3, 13, 7, 0, 10>>, -54)],
    [tier |-> "Sensitive", pm_2_5 |-> 35, pm_10 |-> 154,
     o3  |-> F64(<<1, 1, 14, 11, 8, 5, 1, 14, 11, 8, 5, 1, 14, 12>>, -56),
     co  |-> F64(<<1, 2, 12, 12, 12, 12, 12, 12, 12, 12, 12, 12, 12, 13>>, -49),
     no2 |-> F64(<<1, 9, 9, 9, 9, 9, 9, 9, 9, 9, 9, 9, 9, 10>>, -56)],
    [tier |-> "Moderate", pm_2_5 |-> 12, pm_10 |-> 54,
     o3  |-> F64(<<1, 11, 10, 5, 14, 3, 5, 3, 15, 7, 12, 14, 13, 9>>, -57),
     co  |-> F64(<<1, 1, 9, 9, 9, 9, 9, 9, 9, 9, 9, 9, 9, 10>>, -50),
     no2 |-> F64(<<1, 11, 2, 2, 13, 0, 14, 5, 6, 0, 4, 1, 8, 9>>, -57)] >>

(***************************************************************************)
(* Measurement                                                             *)
(***************************************************************************)
Measurement_new ==
    [pm_1 |-> 0, pm_2_5 |-> 0, pm_10 |-> 0, co2 |-> 0, voc |-> 0, temp |-> 0,
     relative_humidity |-> 0, ch2o |-> 0, co |-> 0, o3 |-> 0, no2 |-> 0]

\* fn temperature(&self) -> f64 { 0.10 * self.temp as f64 - 50.0 }
temperature(m) == F64Sub(F64MulU16(F_0_1, m.temp), F_50_0)

\* fn ch2o(&self) -> f64 { 0.001 * self.ch2o as f64 }
ch2o(m) == F64MulU16(F_0_001, m.ch2o)

\* enum VOCLevel
VOCLevel == <<"Clean", "Light", "Moderate", "Severe">>

\* fn voc(&self) -> VOCLevel; `_ => panic!("unexpected VOC value")`
voc(m) == IF m.voc + 1 \in DOMAIN VOCLevel THEN VOCLevel[m.voc + 1] ELSE "panic"

\* fn co(&self) -> f64 { 0.1 * self.co as f64 }
co(m) == F64MulU16(F_0_1, m.co)

\* an accessor that narrows the raw value to u8 before scaling
o3_as_u8(m) == F64MulU16(F_0_01, m.o3 % U8)

\* fn o3(&self) -> f64 { 0.01 * self.o3 as f64 }
o3(m) == F64MulU16(F_0_01, m.o3)

\* an accessor that scales NO2 like CO, by 0.1
no2_tenths(m) == F64MulU16(F_0_1, m.no2)

\* fn no2(&self) -> f64 { 0.01 * self.no2 as f64 }
no2(m) == F64MulU16(F_0_01, m.no2)

\* a tier test whose CO comparison is `>=`
TierTest_co_ge(q, t) ==
    \/ F64Gt(q.o3, t.o3)
    \/ q.pm_2_5 > t.pm_2_5
    \/ q.pm_10 > t.pm_10
    \/ ~F64Gt(t.co, q.co)
    \/ F64Gt(q.no2, t.no2)

\* one `if` of air_quality_index over its locals q = (o3, pm_2_5, pm_10, co, no2)
TierTest(q, t) ==
    \/ F64Gt(q.o3, t.o3)
    \/ q.pm_2_5 > t.pm_2_5
    \/ q.pm_10 > t.pm_10
    \/ F64Gt(q.co, t.co)
    \/ F64Gt(q.no2, t.no2)

RECURSIVE FirstTier(_, _)
\* the chain of `if .. { return .. }`, ending in Good
FirstTier(q, i) ==
    IF i > Len(Thresholds) THEN "Good"
    ELSE IF TierTest(q, Thresholds[i]) THEN Thresholds[i].tier
    ELSE FirstTier(q, i + 1)

\* a classifier that takes the larger of PM1.0 and PM2.5 as its fine-particle value
Classify_with_pm_1(m) ==
    FirstTier([o3 |-> o3(m), pm_2_5 |-> IF m.pm_1 > m.pm_2_5 THEN m.pm_1 ELSE m.pm_2_5,
               pm_10 |-> m.pm_10, co |-> co(m), no2 |-> no2(m)], 1)

\* the body of air_quality_index
Classify(m) ==
    FirstTier([o3 |-> o3(m), pm_2_5 |-> m.pm_2_5, pm_10 |-> m.pm_10,
               co |-> co(m), no2 |-> no2(m)], 1)

\* tests::TEST_DATA as a Measurement
TEST_MEASUREMENT ==
    [pm_1 |-> 101, pm_2_5 |-> 54, pm_10 |-> 150, co2 |-> 410, voc |-> 0,
     temp |-> 765, relative_humidity |-> 40, ch2o |-> 40, co |-> 5,
     o3 |-> 32, no2 |-> 80]

\* const TEST_DATA: [u8; RESPONSE_SIZE]
TEST_DATA ==
    <<255, 134, 0, 101, 0, 54, 0, 150, 1, 154, 0, 2, 253, 0, 40, 0, 40, 0, 5,
      0, 32, 0, 80, 0, 0, 234>>

\* Readings the sensor is made to report: the test frame, clean air, a
\* moderate reading, one whose payload holds 0xFF bytes, and one whose VOC
\* byte is not one of the four levels.
Readings ==
    { TEST_MEASUREMENT,
      Measurement_new,
      [Measurement_new EXCEPT !.pm_2_5 = 13, !.co2 = 400, !.temp = 700,
                              !.relative_humidity = 55, !.voc = 1],
      [Measurement_new EXCEPT !.pm_1 = 255, !.co2 = 65535, !.voc = 3,
                              !.pm_10 = 255, !.ch2o = 511],
      [Measurement_new EXCEPT !.co2 = 450, !.voc = 4] }

\* Classify over the readings of the streams, evaluated once
ClassifyCache == [m \in Readings |-> Classify(m)]

\* fn air_quality_index(&self) -> AirQualityIndex
air_quality_index(m) ==
    IF m \in DOMAIN ClassifyCache THEN ClassifyCache[m] ELSE Classify(m)

(***************************************************************************)
(* Frame parsing                                                           *)
(***************************************************************************)
\* Rust's data[a..b] on a zero-indexed slice
Slice(data, a, b) == SubSeq(data, a + 1, b)

\* fn read_u16_be(data: &[u8]) -> u16
read_u16_be(data) == data[1] * 256 + data[2]

RECURSIVE WrappingSum(_)
\* fold(0u8, |acc, &x| acc.wrapping_add(x))
WrappingSum(data) ==
    IF data = <<>> THEN 0
    ELSE (WrappingSum(SubSeq(data, 1, Len(data) - 1)) + data[Len(data)]) % U8

\* a checksum that stops at the complement of the sum
calculate_checksum_not(data) == (U8 - 1) - WrappingSum(data)

\* fn calculate_checksum(data: &[u8]) -> u8: fold, .not(), .wrapping_add(1)
calculate_checksum(data) == (((U8 - 1) - WrappingSum(data)) + 1) % U8

\* the fields of Ok(Measurement { .. }) in try_from
ParseFields(b) ==
    [pm_1 |-> read_u16_be(Slice(b, 2, 4)),
     pm_2_5 |-> read_u16_be(Slice(b, 4, 6)),
     pm_10 |-> read_u16_be(Slice(b, 6, 8)),
     co2 |-> read_u16_be(Slice(b, 8, 10)),
     voc |-> b[10 + 1],
     temp |-> read_u16_be(Slice(b, 11, 13)),
     relative_humidity |-> read_u16_be(Slice(b, 13, 15)),
     ch2o |-> read_u16_be(Slice(b, 15, 17)),
     co |-> read_u16_be(Slice(b, 17, 19)),
     o3 |-> read_u16_be(Slice(b, 19, 21)),
     no2 |-> read_u16_be(Slice(b, 21, 23))]

\* a conversion that only checks the length
Measurement_try_from_unchecked(b) ==
    IF Len(b) # RESPONSE_SIZE THEN [ok |-> FALSE]
    ELSE [ok |-> TRUE, v |-> ParseFields(b)]

\* impl TryFrom<&[u8]> for Measurement
Measurement_try_from(b) ==
    IF Len(b) # RESPONSE_SIZE THEN [ok |-> FALSE]
    ELSE IF calculate_checksum(Slice(b, 1, 25)) # b[25 + 1] THEN [ok |-> FALSE]
    ELSE [ok |-> TRUE, v |-> ParseFields(b)]

(***************************************************************************)
(* The closure given to serial_handle.async_receiver.  The closure's       *)
(* state and the statics it touches are gathered in a record st:           *)
(*   buffer, VALUES, SAMPLE_COUNT, notifications, updates, published.      *)
(***************************************************************************)
\* a chunk that arrives out of frame
skip_chunk_always(buf, data) == data[1] # START_BIT

\* a closure that takes every chunk
skip_chunk_never(buf, data) == FALSE

\* if buffer.is_empty() && data[0] != START_BIT { return; }
skip_chunk(buf, data) == buf = <<>> /\ data[1] # START_BIT

\* let to_read = data.len().min(buffer.capacity() - buffer.len());
to_read(data, buf) == Min(Len(data), RESPONSE_SIZE - Len(buf))

\* an error arm that also refreshes the display
on_err_refresh(st) == [st EXCEPT !.buffer = <<>>, !.updates = @ + 1]

\* an error arm that counts the frame as a sample
on_err_count(st) == [st EXCEPT !.buffer = <<>>, !.SAMPLE_COUNT = @ + 1]

\* an error arm that returns without clearing
on_err_keep(st) == st

\* Err(_) => { buffer.clear(); return; }
on_err(st) == [st EXCEPT !.buffer = <<>>]

\* an Ok arm that signals the tier of every sample
on_ok_notify_always(st, v, last_aqi) ==
    [st EXCEPT !.buffer = <<>>,
               !.VALUES = v,
               !.published = Append(@, v),
               !.notifications = Append(@, air_quality_index(v)),
               !.SAMPLE_COUNT = @ + 1,
               !.updates = @ + 1]

\* an Ok arm that stores the particle fields only
on_ok_fieldwise(st, v, last_aqi) ==
    LET merged == [st.VALUES EXCEPT !.pm_1 = v.pm_1, !.pm_2_5 = v.pm_2_5,
                                    !.pm_10 = v.pm_10]
        aqi    == air_quality_index(merged)
    IN  [st EXCEPT !.buffer = <<>>,
                   !.VALUES = merged,
                   !.published = Append(@, merged),
                   !.notifications = IF aqi # last_aqi THEN Append(@, aqi) ELSE @,
                   !.SAMPLE_COUNT = @ + 1,
                   !.updates = @ + 1]

\* an Ok arm that counts the sample before it decides on the notification
on_ok_count_first(st, v, last_aqi) ==
    LET aqi     == air_quality_index(v)
        stored  == [st EXCEPT !.VALUES = v, !.buffer = <<>>,
                              !.published = Append(@, v),
                              !.effects = Append(@, "store")]
        counted == [stored EXCEPT !.SAMPLE_COUNT = @ + 1,
                                  !.effects = Append(@, "count")]
        told    == IF aqi # last_aqi
                   THEN [counted EXCEPT !.notifications = Append(@, aqi),
                                        !.effects = Append(@, "notify")]
                   ELSE counted
    IN  [told EXCEPT !.updates = @ + 1, !.effects = Append(@, "refresh")]

\* Ok(v) => { *values = v; buffer.clear(); } and the rest of the closure, in
\* the order of the statements: the notification (lines 219-230), fetch_add
\* (232), view_port_update (234-236).  st.effects logs the side effects.
on_ok(st, v, last_aqi) ==
    LET aqi     == air_quality_index(v)
        stored  == [st EXCEPT !.VALUES = v, !.buffer = <<>>,
                              !.published = Append(@, v),
                              !.effects = Append(@, "store")]
        told    == IF aqi # last_aqi
                   THEN [stored EXCEPT !.notifications = Append(@, aqi),
                                       !.effects = Append(@, "notify")]
                   ELSE stored
        counted == [told EXCEPT !.SAMPLE_COUNT = @ + 1,
                                !.effects = Append(@, "count")]
    IN  [counted EXCEPT !.updates = @ + 1, !.effects = Append(@, "refresh")]

\* a closure that starts the next frame with the bytes it had no room for
async_receiver_keep_surplus(st, data) ==
    IF skip_chunk(st.buffer, data)
    THEN [st |-> st, kind |-> "discard"]
    ELSE LET n    == to_read(data, st.buffer)
             buf  == st.buffer \o SubSeq(data, 1, n)
             rest == SubSeq(data, n + 1, Min(Len(data), n + RESPONSE_SIZE - 1))
             st1  == [st EXCEPT !.buffer = buf]
         IN  IF Len(buf) < RESPONSE_SIZE
             THEN [st |-> st1, kind |-> "partial"]
             ELSE LET last_aqi == air_quality_index(st.VALUES)
                      r        == Measurement_try_from(buf)
                  IN  IF ~r.ok
                      THEN [st |-> [on_err(st1) EXCEPT !.buffer = rest], kind |-> "reject"]
                      ELSE [st |-> [on_ok(st1, r.v, last_aqi) EXCEPT !.buffer = rest],
                            kind |-> "accept"]

\* the whole closure, for one chunk `data` (never empty)
async_receiver(st, data) ==
    IF skip_chunk(st.buffer, data)
    THEN [st |-> st, kind |-> "discard"]
    ELSE LET n    == to_read(data, st.buffer)
             buf  == st.buffer \o SubSeq(data, 1, n)
             st1  == [st EXCEPT !.buffer = buf]
         IN  IF Len(buf) < RESPONSE_SIZE
             THEN [st |-> st1, kind |-> "partial"]
             ELSE LET last_aqi == air_quality_index(st.VALUES)
                      r        == Measurement_try_from(buf)
                  IN  IF ~r.ok
                      THEN [st |-> on_err(st1), kind |-> "reject"]
                      ELSE [st |-> on_ok(st1, r.v, last_aqi), kind |-> "accept"]

(***************************************************************************)
(* The sensor and the transport                                            *)
(***************************************************************************)
Hi(x) == x \div 256
Lo(x) == x % 256

\* The 26 bytes the sensor sends for a Measurement: the layout try_from
\* reads, with the checksum over bytes 1..24 in byte 25.
EncodeFrame(m) ==
    LET body == <<CMD_ECHO,
                  Hi(m.pm_1), Lo(m.pm_1), Hi(m.pm_2_5), Lo(m.pm_2_5),
                  Hi(m.pm_10), Lo(m.pm_10), Hi(m.co2), Lo(m.co2),
                  m.voc,
                  Hi(m.temp), Lo(m.temp),
                  Hi(m.relative_humidity), Lo(m.relative_humidity),
                  Hi(m.ch2o), Lo(m.ch2o), Hi(m.co), Lo(m.co),
                  Hi(m.o3), Lo(m.o3), Hi(m.no2), Lo(m.no2), 0, 0>>
    IN  <<START_BIT>> \o body \o <<(U8 - WrappingSum(body)) % U8>>

RECURSIVE Pow2(_)
Pow2(k) == IF k = 0 THEN 1 ELSE 2 * Pow2(k - 1)

\* one bit of a byte inverted
FlipBit(b, k) == IF (b \div Pow2(k)) % 2 = 1 THEN b - Pow2(k) ELSE b + Pow2(k)

\* A frame descriptor is [m, byte, bit]: the frame of m, sent intact when
\* byte = 0, else with that bit of that (zero-indexed) byte inverted.
WireFrame(d) ==
    LET f == EncodeFrame(d.m)
    IN  IF d.byte = 0 THEN f
        ELSE [f EXCEPT ![d.byte + 1] = FlipBit(@, d.bit)]

Intact(d) == d.byte = 0

RECURSIVE Wire(_)
Wire(ds) == IF ds = <<>> THEN <<>> ELSE WireFrame(Head(ds)) \o Wire(Tail(ds))

\* Readings used in streams of several frames
FewReadings ==
    { TEST_MEASUREMENT,
      [Measurement_new EXCEPT !.pm_2_5 = 13, !.co2 = 400, !.temp = 700,
                              !.relative_humidity = 55, !.voc = 1],
      [Measurement_new EXCEPT !.pm_1 = 255, !.co2 = 65535, !.voc = 3,
                              !.pm_10 = 255, !.ch2o = 511] }

\* bound: frames per stream
MaxFrames == 2

CHECKSUM_BYTE == 25

\* every single-bit corruption of the checksum byte, one of a data byte and
\* one of the last covered byte
Corruptions ==
    {[byte |-> CHECKSUM_BYTE, bit |-> k] : k \in 0..7}
    \cup {[byte |-> 3, bit |-> 0], [byte |-> CHECKSUM_BYTE - 1, bit |-> 0]}

Descriptors ==
    {[m |-> m, byte |-> 0, bit |-> 0] : m \in Readings}
    \cup {[m |-> m, byte |-> c.byte, bit |-> c.bit] : m \in Readings, c \in Corruptions}

FewDescriptors ==
    {[m |-> m, byte |-> 0, bit |-> 0] : m \in FewReadings}
    \cup {[m |-> TEST_MEASUREMENT, byte |-> CHECKSUM_BYTE, bit |-> 0]}

RECURSIVE SeqsOf(_, _)
\* the sequences of exactly n elements of S
SeqsOf(S, n) ==
    IF n = 0 THEN {<<>>}
    ELSE {Append(q, x) : q \in SeqsOf(S, n - 1), x \in S}

Scenarios ==
    {<<d>> : d \in Descriptors}
    \cup UNION {SeqsOf(FewDescriptors, n) : n \in 2..MaxFrames}

(***************************************************************************)
(* The host's FuriPubSub primitive (firmware, outside the repository):     *)
(* allocate, free, subscribe(callback, context) -> token,                  *)
(* unsubscribe(token), publish.  A token is the address of the host's      *)
(* subscription item, so it is unique among the live items only.           *)
(***************************************************************************)
\* bound: Subscription values the client creates
MaxSubs == 2

\* bound: events the host publishes to the client's buses
MaxEvents == 2

\* bound: events the host publishes on the power bus
MaxPowerEvents == 3

Buses == {"power", "storage", "owned"}
Subs == 1..MaxSubs
Tokens == 1..(MaxSubs + 1)

\* nicla-sense-env's main owns callback 0 and subscription 0
MAIN == 0

FreeTokens == Tokens \ {r.token : r \in regs}

\* the address the host's allocator gives the next item: the lowest free one
NewToken == CHOOSE t \in FreeTokens : \A u \in FreeTokens : t <= u

\* furi_pubsub_subscribe(pubsub, callback, context): a new item
HostSubscribe(rs, bus, tok, ctx, owner) ==
    rs \cup {[bus |-> bus, token |-> tok, ctx |-> ctx, owner |-> owner]}

\* furi_pubsub_unsubscribe(pubsub, token): the item of that bus at that address
HostUnsubscribe(rs, bus, tok) == {r \in rs : ~(r.bus = bus /\ r.token = tok)}

BusLive(b) == busState[b] \in {"host", "alloc"}

(***************************************************************************)
(* src/src/furi/pubsub.rs                                                  *)
(***************************************************************************)
NoSubscription == [state |-> "none", pubsub |-> "none", raw |-> 0, cb |-> 0]

\* PubSub::subscribe: registers the address of the pinned callback as the
\* context and keeps the bus and the token
PubSub_subscribe(rs, bus, tok, cb, owner) == HostSubscribe(rs, bus, tok, cb, owner)

\* a drop that forgets to unsubscribe
Subscription_drop_nothing(rs, sub) == rs

\* a drop that deregisters by bus alone
Subscription_drop_bus(rs, sub) == {r \in rs : r.bus # sub.pubsub}

\* a drop that hands the token to the storage bus, whatever bus it is from
Subscription_drop_storage(rs, sub) == HostUnsubscribe(rs, "storage", sub.raw)

\* impl Drop for Subscription: furi_pubsub_unsubscribe(self.pubsub.as_ptr(), self.raw.as_ptr())
Subscription_drop(rs, sub) == HostUnsubscribe(rs, sub.pubsub, sub.raw)

\* a Subscription that holds no borrow of its bus
BusUnborrowed_unchecked(b) == TRUE

\* Subscription<'a, T> holds &'a PubSub<T>: while one is live its bus is
\* borrowed, and the OwnedPubSub behind it cannot be dropped
BusUnborrowed(b) == \A s \in Subs : ~(subs[s].state = "live" /\ subs[s].pubsub = b)

PubSubIdle ==
    /\ busState = [b \in Buses |-> IF b = "owned" THEN "unalloc" ELSE "host"]
    /\ regs = {}
    /\ freeCount = 0
    /\ owned = "none"
    /\ cbState = [c \in {MAIN} \cup Subs |-> "unborn"]
    /\ calls = [c \in {MAIN} \cup Subs |-> 0]
    /\ subs = [s \in Subs |-> NoSubscription]
    /\ pubCount = [b \in Buses |-> 0]
    /\ ub = FALSE
    /\ lateEvent = FALSE
    /\ npc = "start"
    /\ printed = "none"

(***************************************************************************)
(* src/src/bin/sgp30.rs                                                    *)
(***************************************************************************)
\* State::new()
State_new == [co2_eq |-> 0, tvoc |-> 0]

\* State::is_zero
is_zero(s) == s.co2_eq = 0 /\ s.tvoc = 0

\* sgp30_measure_iaq: rx is what bus.tx and bus.rx give, [ok, buffer] with
\* the 6 bytes CO2eq, CRC, TVOC, CRC; `?` returns the error
sgp30_measure_iaq(rx) ==
    IF rx.ok
    THEN [ok |-> TRUE,
          co2_eq |-> read_u16_be(SubSeq(rx.buffer, 1, 2)),
          tvoc |-> read_u16_be(SubSeq(rx.buffer, 4, 5))]
    ELSE [ok |-> FALSE, co2_eq |-> 0, tvoc |-> 0]

\* a read_sgp30 that shows the measurements from CURRENT_SAMPLE 15 on
read_sgp30_from_15(st, rx) ==
    LET r == sgp30_measure_iaq(rx)
    IN  IF ~r.ok THEN st
        ELSE LET stored == IF st.CURRENT_SAMPLE >= 15
                          THEN [st EXCEPT !.state = [co2_eq |-> r.co2_eq, tvoc |-> r.tvoc],
                                          !.updates = @ + 1]
                          ELSE st
             IN  [stored EXCEPT !.CURRENT_SAMPLE = @ + 1]

\* read_sgp30, on st = [state, CURRENT_SAMPLE, updates]: the let-else returns
\* on an error; STATE is written and the view port updated when
\* CURRENT_SAMPLE > 15; then fetch_add(1), which stays far below the 2^32 of
\* an AtomicU32 in the runs looked at
read_sgp30(st, rx) ==
    LET r == sgp30_measure_iaq(rx)
    IN  IF ~r.ok THEN st
        ELSE LET stored == IF st.CURRENT_SAMPLE > 15
                          THEN [st EXCEPT !.state = [co2_eq |-> r.co2_eq, tvoc |-> r.tvoc],
                                          !.updates = @ + 1]
                          ELSE st
             IN  [stored EXCEPT !.CURRENT_SAMPLE = @ + 1]

\* draw_callback: the text it draws
sgp30_draw(s) ==
    IF is_zero(s) THEN <<"Warming up...">>
    ELSE <<"SGP30 Gas Sensor", <<"CO2eq", s.co2_eq>>, <<"TVOC", s.tvoc>>>>

NoRead == [ok |-> FALSE, buffer |-> <<0, 0, 0, 0, 0, 0>>]

SgpIdle ==
    /\ sgp_STATE = State_new
    /\ CURRENT_SAMPLE = 0
    /\ sgp_updates = 0
    /\ sgp_reads = 0
    /\ sgp_last = NoRead
    /\ sgp_screen = <<>>

(***************************************************************************)
(* src/src/nicla_sense_env.rs                                              *)
(***************************************************************************)
RECURSIVE BitAnd(_, _)
\* u8 operators
BitAnd(a, b) ==
    IF a = 0 \/ b = 0 THEN 0
    ELSE (a % 2) * (b % 2) + 2 * BitAnd(a \div 2, b \div 2)

BitOr(a, b) == a + b - BitAnd(a, b)

BitNot8(a) == 255 - a

Shl8(a, k) == (a * Pow2(k)) % U8

Shr(a, k) == a \div Pow2(k)

\* #[repr(u8)] enum OutdoorSensorMode, enum IndoorSensorMode: `mode as u8`
OutdoorSensorMode == [Off |-> 0, Cleaning |-> 1, OutdoorAirQuality |-> 2]

IndoorSensorMode ==
    [Off |-> 0, Cleaning |-> 1, IndoorAirQuality |-> 2, IndoorAirQualityLowPower |-> 3,
     PublicBuildingAirQuality |-> 4, Sulfur |-> 5]

\* the variant with discriminant v, or "panic" (`_ => panic!("invalid state")`)
Variant(enum, v) ==
    IF \E m \in DOMAIN enum : enum[m] = v
    THEN CHOOSE m \in DOMAIN enum : enum[m] = v
    ELSE "panic"

\* outdoor_sensor_mode, given the status register read
outdoor_sensor_mode(status) == Variant(OutdoorSensorMode, BitAnd(Shr(status, 4), 3))

\* a set_outdoor_sensor_mode that does not clear the field first
set_outdoor_sensor_mode_or(status, mode) ==
    BitOr(status, Shl8(OutdoorSensorMode[mode], 4))

\* set_outdoor_sensor_mode: new_status
set_outdoor_sensor_mode(status, mode) ==
    BitOr(BitAnd(status, BitNot8(Shl8(3, 4))), Shl8(OutdoorSensorMode[mode], 4))

\* indoor_sensor_mode, given the status register read
indoor_sensor_mode(status) == Variant(IndoorSensorMode, BitAnd(Shr(status, 1), 7))

\* set_indoor_sensor_mode: new_status
set_indoor_sensor_mode(status, mode) ==
    BitOr(BitAnd(status, BitNot8(Shl8(7, 1))), Shl8(IndoorSensorMode[mode], 1))

\* f32::from_le_bytes: the f32 whose bit pattern has b[3] as its most
\* significant byte and b[0] as its least; an f32 is written as the bytes of
\* its pattern, most significant first
f32_from_le_bytes(b) == <<b[4], b[3], b[2], b[1]>>

\* 0.0f32
F32_ZERO == <<0, 0, 0, 0>>

\* buf.windows(4): the n-th window (n from 0), and how many there are
window(buf, n) == SubSeq(buf, n + 1, n + 4)

windows_count(buf) == IF Len(buf) < 4 THEN 0 ELSE Len(buf) - 3

\* the result arrays: outdoor_rmox, indoor_rmox [f32; 13], indoor_rcda [f32; 3]
RmoxFns == [outdoor_rmox |-> 13, indoor_rmox |-> 13, indoor_rcda |-> 3]

RmoxIdle == [fn |-> "none", buf |-> <<>>, values |-> <<>>, n |-> 0, pc |-> "idle"]

NoModes == [outdoor |-> "none", indoor |-> "none"]

EnvIdle ==
    /\ status_reg = 0
    /\ mode_set = NoModes
    /\ mode_got = NoModes
    /\ rmox = RmoxIdle

(***************************************************************************)
(* The parts of the state that belong to the other programs, before they   *)
(* start.                                                                  *)
(***************************************************************************)
\* bound: record handle values a client creates
MaxHandles == 3

Handles == 1..MaxHandles

\* RawRecord::NAME / RecordType::NAME of the records with an event bus
RecordNames == {"power", "storage"}

NoHandle == [state |-> "unborn", name |-> "none", api |-> "none"]

RecordIdle ==
    /\ handles = [h \in Handles |-> NoHandle]
    /\ holders = [n \in RecordNames |-> [opens |-> 0, closes |-> 0]]
    /\ wrappers = {}

\* the closure is not running
HandlerIdle == [pc |-> "idle", last_aqi |-> "none", v |-> Measurement_new]

AppIdle ==
    /\ lock = "free"
    /\ handler = HandlerIdle
    /\ rpc = "idle"
    /\ shown = Measurement_new
    /\ draws = 0

LoopIdle ==
    /\ mpc = "start"
    /\ events = <<>>
    /\ tx = <<>>
    /\ passes = 0
    /\ receiver = "idle"
    /\ view_port = "added"
    /\ freed_update = FALSE

OthersIdle == AppIdle /\ LoopIdle /\ RecordIdle /\ SgpIdle /\ EnvIdle

(***************************************************************************)
(* Specification of the decoder: the transport delivers the stream in      *)
(* chunks of any sizes.                                                    *)
(***************************************************************************)
AqiIdle == input = Measurement_new /\ tier = "none"

Init ==
    /\ scenario \in Scenarios
    /\ stream = Wire(scenario)
    /\ pos = 0
    /\ buffer = <<>>
    /\ VALUES = Measurement_new
    /\ SAMPLE_COUNT = 0
    /\ notifications = <<>>
    /\ updates = 0
    /\ published = <<>>
    /\ last = [kind |-> "none", one_byte |-> FALSE, surplus |-> FALSE, effects |-> <<>>]
    /\ AqiIdle
    /\ PubSubIdle
    /\ OthersIdle

State ==
    [buffer |-> buffer, VALUES |-> VALUES, SAMPLE_COUNT |-> SAMPLE_COUNT,
     notifications |-> notifications, updates |-> updates, published |-> published,
     effects |-> <<>>]

\* the transport calls the closure with the next n bytes
Deliver(n) ==
    \E r \in {async_receiver(State, SubSeq(stream, pos + 1, pos + n))} :
        /\ pos' = pos + n
        /\ buffer' = r.st.buffer
        /\ VALUES' = r.st.VALUES
        /\ SAMPLE_COUNT' = r.st.SAMPLE_COUNT
        /\ notifications' = r.st.notifications
        /\ updates' = r.st.updates
        /\ published' = r.st.published
        /\ last' = [kind |-> r.kind, one_byte |-> (n = 1),
                    surplus |-> (r.kind # "discard" /\ n > RESPONSE_SIZE - Len(buffer)),
                    effects |-> r.st.effects]
        /\ UNCHANGED <<scenario, stream, aqiVars, pubsubVars,
                   appVars, loopVars, recordVars,
                   sgpVars, envVars>>

Next == \E n \in 1..(Len(stream) - pos) : Deliver(n)

Spec == Init /\ [][Next]_vars

(***************************************************************************)
(* Specification of the classifier alone: a Measurement is drawn and       *)
(* air_quality_index is applied to it.                                     *)
(***************************************************************************)
\* bound: the raw values 0..MaxRaw each monitored field sweeps through
MaxRaw == 430

U16_MAX == 65535

Monitored == {"o3", "pm_2_5", "pm_10", "co", "no2"}

\* raw values next to the thresholds of each field
NearThresholds ==
    [o3     |-> {5, 6, 7, 8, 10, 11, 20, 21},
     pm_2_5 |-> {12, 13, 35, 36, 55, 56, 150, 151, 250, 251},
     pm_10  |-> {54, 55, 154, 155, 254, 255, 354, 355, 424, 425},
     co     |-> {44, 45, 94, 95, 124, 125, 154, 155, 300, 301},
     no2    |-> {5, 6, 10, 11, 36, 37, 64, 65, 124, 125}]

AqiInputs ==
    {[Measurement_new EXCEPT ![f] = x] :
        f \in Monitored \cup {"pm_1"}, x \in (0..MaxRaw) \cup {U16_MAX}}
    \cup UNION {{[Measurement_new EXCEPT ![f] = x, ![g] = y] :
                    x \in NearThresholds[f], y \in NearThresholds[g]} :
                <<f, g>> \in {p \in Monitored \X Monitored : p[1] # p[2]}}

DecoderIdle ==
    /\ scenario = <<>>
    /\ stream = <<>>
    /\ pos = 0
    /\ buffer = <<>>
    /\ VALUES = Measurement_new
    /\ SAMPLE_COUNT = 0
    /\ notifications = <<>>
    /\ updates = 0
    /\ published = <<>>
    /\ last = [kind |-> "none", one_byte |-> FALSE, surplus |-> FALSE, effects |-> <<>>]

InitAqi ==
    /\ input \in AqiInputs
    /\ tier = "none"
    /\ DecoderIdle
    /\ PubSubIdle
    /\ OthersIdle

ClassifyInput ==
    /\ tier = "none"
    /\ tier' = air_quality_index(input)
    /\ UNCHANGED <<input, decoderVars, pubsubVars,
                   appVars, loopVars, recordVars,
                   sgpVars, envVars>>

NextAqi == ClassifyInput

SpecAqi == InitAqi /\ [][NextAqi]_vars

(***************************************************************************)
(* Specification of the decoder after a transport glitch: one chunk of     *)
(* stray bytes (the head or the tail of a frame), then intact frames, each *)
(* delivered as one chunk of 26 bytes.  scenario lists the frames          *)
(* delivered so far.                                                       *)
(***************************************************************************)
\* bound: whole frames delivered after the stray bytes
MaxWhole == 3

StrayChunks ==
    UNION {{SubSeq(EncodeFrame(m), 1, k) : k \in 1..(RESPONSE_SIZE - 1)}
           \cup {SubSeq(EncodeFrame(m), k, RESPONSE_SIZE) : k \in 2..RESPONSE_SIZE} :
           m \in FewReadings}

InitGlitch == DecoderIdle /\ AqiIdle /\ PubSubIdle /\ OthersIdle

\* the transport calls the closure with the chunk `data`
Receive(data, frames) ==
    \E r \in {async_receiver(State, data)} :
        /\ scenario' = frames
        /\ stream' = stream \o data
        /\ pos' = pos + Len(data)
        /\ buffer' = r.st.buffer
        /\ VALUES' = r.st.VALUES
        /\ SAMPLE_COUNT' = r.st.SAMPLE_COUNT
        /\ notifications' = r.st.notifications
        /\ updates' = r.st.updates
        /\ published' = r.st.published
        /\ last' = [kind |-> r.kind, one_byte |-> (Len(data) = 1),
                    surplus |-> (r.kind # "discard"
                                 /\ Len(data) > RESPONSE_SIZE - Len(buffer)),
                    effects |-> r.st.effects]
        /\ UNCHANGED <<aqiVars, pubsubVars,
                   appVars, loopVars, recordVars,
                   sgpVars, envVars>>

\* line noise: part of a frame arrives on its own
StrayBytes == pos = 0 /\ \E s \in StrayChunks : Receive(s, scenario)

\* the sensor's answer arrives whole
WholeFrame ==
    /\ Len(scenario) < MaxWhole
    /\ \E m \in FewReadings :
          Receive(EncodeFrame(m), Append(scenario, [m |-> m, byte |-> 0, bit |-> 0]))

NextGlitch == StrayBytes \/ WholeFrame

SpecGlitch == InitGlitch /\ [][NextGlitch]_vars

(***************************************************************************)
(* A client of src/src/furi/pubsub.rs: for each Subscription s it pins a   *)
(* callback (callback s), subscribes it to the borrowed storage bus or to  *)
(* an OwnedPubSub, and drops its values in any order the borrow checker    *)
(* admits.  The host publishes events.                                     *)
(***************************************************************************)
\* OwnedPubSub::alloc
OwnedPubSub_alloc ==
    /\ owned = "none"
    /\ owned' = "alive"
    /\ busState' = [busState EXCEPT !["owned"] = "alloc"]
    /\ UNCHANGED <<regs, freeCount, cbState, calls, subs, pubCount,
                   ub, lateEvent, npc, printed, decoderVars, aqiVars,
                   appVars, loopVars, recordVars,
                   sgpVars, envVars>>

\* let callback = pin!(callback);
PinCallback(c) ==
    /\ cbState[c] = "unborn"
    /\ cbState' = [cbState EXCEPT ![c] = "alive"]
    /\ UNCHANGED <<busState, regs, freeCount, owned, calls, subs, 
                   pubCount, ub, lateEvent, npc, printed, decoderVars, aqiVars,
                   appVars, loopVars, recordVars,
                   sgpVars, envVars>>

\* the PubSub<T> the client can reach: the host's storage bus through
\* PubSub::from_raw, the owned one through OwnedPubSub::as_pubsub
Reachable(b) == b = "storage" \/ (b = "owned" /\ owned = "alive")

\* let subscription = pubsub.subscribe(callback);
Subscribe(s, b) ==
    /\ subs[s].state = "none"
    /\ Reachable(b)
    /\ cbState[s] = "alive"
    /\ regs' = PubSub_subscribe(regs, b, NewToken, s, s)
    /\ subs' = [subs EXCEPT ![s] = [state |-> "live", pubsub |-> b,
                                    raw |-> NewToken, cb |-> s]]
    /\ UNCHANGED <<busState, freeCount, owned, cbState, calls, 
                   pubCount, ub, lateEvent, npc, printed, decoderVars, aqiVars,
                   appVars, loopVars, recordVars,
                   sgpVars, envVars>>

\* the Subscription goes out of scope
DropSubscription(s) ==
    /\ subs[s].state = "live"
    /\ regs' = Subscription_drop(regs, subs[s])
    /\ subs' = [subs EXCEPT ![s].state = "dropped"]
    /\ UNCHANGED <<busState, freeCount, owned, cbState, calls, 
                   pubCount, ub, lateEvent, npc, printed, decoderVars, aqiVars,
                   appVars, loopVars, recordVars,
                   sgpVars, envVars>>

\* the pinned callback goes out of scope: subscribe's result borrows the
\* PubSub only (`Subscription<'_, T>` takes its lifetime from &self), so the
\* callback may end while a Subscription made with it lives on
DropCallback(c) ==
    /\ cbState[c] = "alive"
    /\ cbState' = [cbState EXCEPT ![c] = "dead"]
    /\ UNCHANGED <<busState, regs, freeCount, owned, calls, subs, 
                   pubCount, ub, lateEvent, npc, printed, decoderVars, aqiVars,
                   appVars, loopVars, recordVars,
                   sgpVars, envVars>>

\* impl Drop for OwnedPubSub: furi_pubsub_free(self.raw.as_ptr())
OwnedPubSub_drop ==
    /\ owned = "alive"
    /\ BusUnborrowed("owned")
    /\ owned' = "dropped"
    /\ busState' = [busState EXCEPT !["owned"] = "freed"]
    /\ freeCount' = freeCount + 1
    /\ UNCHANGED <<regs, cbState, calls, subs, pubCount, ub, lateEvent, npc,
                   printed, decoderVars, aqiVars,
                   appVars, loopVars, recordVars,
                   sgpVars, envVars>>

EventsPublished == pubCount["power"] + pubCount["storage"] + pubCount["owned"]

OnBus(b) == {r \in regs : r.bus = b}

\* furi_pubsub_publish on bus b: the host calls every item's callback with
\* its context; pubsub_callback casts the context back and calls the
\* callback object, which is undefined behaviour when that object is gone.
HostPublish(b, type) ==
    /\ BusLive(b)
    /\ pubCount' = [pubCount EXCEPT ![b] = @ + 1]
    /\ calls' = [c \in DOMAIN calls |->
                    IF cbState[c] = "alive"
                    THEN calls[c] + Cardinality({r \in OnBus(b) : r.ctx = c})
                    ELSE calls[c]]
    /\ ub' = (ub \/ \E r \in OnBus(b) : cbState[r.ctx] # "alive")
    /\ lateEvent' = (lateEvent \/ \E s \in Subs :
                                     subs[s].state = "dropped" /\ subs[s].pubsub = b)
    /\ printed' = IF \E r \in OnBus(b) : r.ctx = MAIN /\ cbState[MAIN] = "alive"
                  THEN type ELSE printed
    /\ UNCHANGED <<busState, regs, freeCount, owned, cbState, subs, npc,
                   decoderVars, aqiVars,
                   appVars, loopVars, recordVars,
                   sgpVars, envVars>>

InitPubSub == DecoderIdle /\ AqiIdle /\ PubSubIdle /\ OthersIdle

NextPubSub ==
    \/ OwnedPubSub_alloc
    \/ \E c \in Subs : PinCallback(c)
    \/ \E s \in Subs, b \in {"storage", "owned"} : Subscribe(s, b)
    \/ \E s \in Subs : DropSubscription(s)
    \/ \E c \in Subs : DropCallback(c)
    \/ OwnedPubSub_drop
    \/ \E b \in {"storage", "owned"} :
          EventsPublished < MaxEvents /\ HostPublish(b, "StorageEvent")

SpecPubSub == InitPubSub /\ [][NextPubSub]_vars

(***************************************************************************)
(* src/src/bin/nicla-sense-env.rs main, with src/src/furi_pubsub.rs and    *)
(* src/src/furi_hal_power.rs                                               *)
(***************************************************************************)
PowerEventType == {"StopCharging", "StartCharging", "FullyCharged", "BatteryLevelChanged"}

\* furi_pubsub.rs PubSub::subscribe: as above, but the Subscription it
\* returns holds the token alone
Old_PubSub_subscribe(rs, bus, tok, cb, owner) == HostSubscribe(rs, bus, tok, cb, owner)

\* furi_pubsub.rs declares no Drop for Subscription: dropping one does nothing
Old_Subscription_drop(rs, sub) == rs

\* let power: Record<Power> = Record::open(); let pubsub = power.get_pubsub();
MainOpen ==
    /\ npc = "start"
    /\ npc' = "opened"
    /\ UNCHANGED <<busState, regs, freeCount, owned, cbState, calls, subs,
                   pubCount, ub, lateEvent, printed, decoderVars, aqiVars,
                   appVars, loopVars, recordVars,
                   sgpVars, envVars>>

\* let callback = Callback::new(..); let callback = pin!(callback);
MainPin ==
    /\ npc = "opened"
    /\ npc' = "pinned"
    /\ cbState' = [cbState EXCEPT ![MAIN] = "alive"]
    /\ UNCHANGED <<busState, regs, freeCount, owned, calls, subs, 
                   pubCount, ub, lateEvent, printed, decoderVars, aqiVars,
                   appVars, loopVars, recordVars,
                   sgpVars, envVars>>

\* let _subscription = pubsub.subscribe(callback);
MainSubscribe ==
    /\ npc = "pinned"
    /\ npc' = "subscribed"
    /\ regs' = Old_PubSub_subscribe(regs, "power", NewToken, MAIN, MAIN)
    /\ UNCHANGED <<busState, freeCount, owned, cbState, calls, subs, 
                   pubCount, ub, lateEvent, printed, decoderVars, aqiVars,
                   appVars, loopVars, recordVars,
                   sgpVars, envVars>>

\* GUI setup, sensor modes, then view_dispatcher_run
MainRun ==
    /\ npc = "subscribed"
    /\ npc' = "running"
    /\ UNCHANGED <<busState, regs, freeCount, owned, cbState, calls, subs,
                   pubCount, ub, lateEvent, printed, decoderVars, aqiVars,
                   appVars, loopVars, recordVars,
                   sgpVars, envVars>>

\* Back: view_dispatcher_stop, view_dispatcher_run returns, GUI cleanup
MainBack ==
    /\ npc = "running"
    /\ npc' = "cleanup"
    /\ UNCHANGED <<busState, regs, freeCount, owned, cbState, calls, subs,
                   pubCount, ub, lateEvent, printed, decoderVars, aqiVars,
                   appVars, loopVars, recordVars,
                   sgpVars, envVars>>

\* `0` and the end of main: the locals are dropped in reverse order of
\* declaration, _subscription first, then the pinned callback
MainReturn ==
    /\ npc = "cleanup"
    /\ npc' = "returned"
    /\ regs' = Old_Subscription_drop(regs, [pubsub |-> "power"])
    /\ cbState' = [cbState EXCEPT ![MAIN] = "dead"]
    /\ UNCHANGED <<busState, freeCount, owned, calls, subs, 
                   pubCount, ub, lateEvent, printed, decoderVars, aqiVars,
                   appVars, loopVars, recordVars,
                   sgpVars, envVars>>

InitNicla == DecoderIdle /\ AqiIdle /\ PubSubIdle /\ OthersIdle

NextNicla ==
    \/ MainOpen
    \/ MainPin
    \/ MainSubscribe
    \/ MainRun
    \/ MainBack
    \/ MainReturn
    \/ \E t \in PowerEventType :
          pubCount["power"] < MaxPowerEvents /\ HostPublish("power", t)

SpecNicla == InitNicla /\ [][NextNicla]_vars

(***************************************************************************)
(* zphs01b: the closure of async_receiver and draw_callback, each in its   *)
(* own execution context, statement by statement.  Both take the Mutex of  *)
(* VALUES: the closure at line 173, held to its end; draw_callback at line *)
(* 79, held to its end.  `*values = v` copies the struct, modelled as two  *)
(* partial copies.                                                         *)
(***************************************************************************)
\* bound: frames per stream
MaxAppFrames == 2

\* bound: draw_callback calls
MaxDraws == 2

AppDescriptors ==
    FewDescriptors
    \cup {[m |-> [Measurement_new EXCEPT !.co2 = 450, !.voc = 4], byte |-> 0, bit |-> 0]}

AppScenarios == UNION {SeqsOf(AppDescriptors, n) : n \in 1..MaxAppFrames}

\* the transport delivers frames whole or in halves
AppChunkSizes == {RESPONSE_SIZE \div 2, RESPONSE_SIZE}

\* the first and the second part of the copy `*values = v`
StoreA == {"pm_1", "pm_2_5", "pm_10", "co2", "voc", "temp"}
StoreB == {"relative_humidity", "ch2o", "co", "o3", "no2"}

\* what draw_callback reads at lines 81-87 and at lines 96-103
ReadA == {"pm_1", "pm_2_5", "pm_10", "voc"}
ReadB == {"co2", "temp", "relative_humidity", "ch2o", "co", "o3", "no2"}

\* m with the fields fs taken from src
CopyFields(m, src, fs) == [f \in DOMAIN m |-> IF f \in fs THEN src[f] ELSE m[f]]

\* a Mutex that lets everyone in
CanLock_always == TRUE

\* VALUES.lock() returns once nobody holds the Mutex
CanLock == lock = "free"

Running == rpc # "panic"

InitApp ==
    /\ scenario \in AppScenarios
    /\ stream = Wire(scenario)
    /\ pos = 0
    /\ buffer = <<>>
    /\ VALUES = Measurement_new
    /\ SAMPLE_COUNT = 0
    /\ notifications = <<>>
    /\ updates = 0
    /\ published = <<>>
    /\ last = [kind |-> "none", one_byte |-> FALSE, surplus |-> FALSE, effects |-> <<>>]
    /\ AqiIdle
    /\ PubSubIdle
    /\ OthersIdle

Outcome(kind, n, effects) ==
    [kind |-> kind, one_byte |-> (n = 1),
     surplus |-> (kind # "discard" /\ n > RESPONSE_SIZE - Len(buffer)),
     effects |-> effects]

\* lines 161-171: the closure is called with the next n bytes
H_Chunk(n) ==
    /\ Running /\ handler.pc = "idle" /\ pos + n <= Len(stream)
    /\ LET data == SubSeq(stream, pos + 1, pos + n)
           buf  == buffer \o SubSeq(data, 1, to_read(data, buffer))
       IN  IF skip_chunk(buffer, data)
           THEN /\ last' = Outcome("discard", n, <<>>)
                /\ UNCHANGED <<buffer, handler,
                   sgpVars, envVars>>
           ELSE /\ buffer' = buf
                /\ last' = Outcome("partial", n, <<>>)
                /\ handler' = IF Len(buf) < RESPONSE_SIZE THEN handler
                              ELSE [handler EXCEPT !.pc = "lock"]
    /\ pos' = pos + n
    /\ UNCHANGED <<scenario, stream, VALUES, SAMPLE_COUNT, notifications, updates,
                   published, lock, rpc, shown, draws,
                   aqiVars, pubsubVars, loopVars, recordVars,
                   sgpVars, envVars>>

\* lines 173-174: VALUES.lock(), last_aqi
H_Lock ==
    /\ Running /\ handler.pc = "lock" /\ CanLock
    /\ lock' = "decoder"
    /\ handler' = [handler EXCEPT !.pc = "match", !.last_aqi = air_quality_index(VALUES)]
    /\ UNCHANGED <<decoderVars, rpc, shown, draws,
                   aqiVars, pubsubVars, loopVars, recordVars,
                   sgpVars, envVars>>

\* lines 176-180: try_from; the Err arm
H_Match ==
    /\ Running /\ handler.pc = "match"
    /\ \E r \in {Measurement_try_from(buffer)} :
          IF r.ok
          THEN /\ handler' = [handler EXCEPT !.pc = "store_a", !.v = r.v]
               /\ UNCHANGED <<buffer, last,
                   sgpVars, envVars>>
          ELSE /\ handler' = [handler EXCEPT !.pc = "unlock"]
               /\ buffer' = on_err(State).buffer
               /\ last' = [last EXCEPT !.kind = "reject"]
    /\ UNCHANGED <<scenario, stream, pos, VALUES, SAMPLE_COUNT, notifications,
                   updates, published, lock, rpc, shown, draws,
                   aqiVars, pubsubVars, loopVars, recordVars,
                   sgpVars, envVars>>

\* line 182, `*values = v`: the first fields, then the others
H_Store ==
    /\ Running /\ handler.pc \in {"store_a", "store_b"}
    /\ IF handler.pc = "store_a"
       THEN /\ VALUES' = CopyFields(VALUES, handler.v, StoreA)
            /\ handler' = [handler EXCEPT !.pc = "store_b"]
       ELSE /\ VALUES' = CopyFields(VALUES, handler.v, StoreB)
            /\ handler' = [handler EXCEPT !.pc = "finish"]
    /\ UNCHANGED <<scenario, stream, pos, buffer, SAMPLE_COUNT, notifications,
                   updates, published, last, lock, rpc, shown, draws,
                   aqiVars, pubsubVars, loopVars, recordVars,
                   sgpVars, envVars>>

\* lines 183-236: buffer.clear(), the notification, fetch_add, view_port_update
H_Finish ==
    /\ Running /\ handler.pc = "finish"
    /\ \E r \in {on_ok(State, handler.v, handler.last_aqi)} :
          /\ buffer' = r.buffer
          /\ VALUES' = r.VALUES
          /\ SAMPLE_COUNT' = r.SAMPLE_COUNT
          /\ notifications' = r.notifications
          /\ updates' = r.updates
          /\ published' = r.published
          /\ last' = [last EXCEPT !.kind = "accept", !.effects = r.effects]
    /\ handler' = [handler EXCEPT !.pc = "unlock"]
    /\ UNCHANGED <<scenario, stream, pos, lock, rpc, shown, draws,
                   aqiVars, pubsubVars, loopVars, recordVars,
                   sgpVars, envVars>>

\* a closure that returns with the Mutex still locked
H_Unlock_keep ==
    /\ Running /\ handler.pc = "unlock"
    /\ handler' = HandlerIdle
    /\ UNCHANGED <<decoderVars, lock, rpc, shown, draws,
                   aqiVars, pubsubVars, loopVars, recordVars,
                   sgpVars, envVars>>

\* the closure returns: the guard `values` is dropped
H_Unlock ==
    /\ Running /\ handler.pc = "unlock"
    /\ lock' = "free"
    /\ handler' = HandlerIdle
    /\ UNCHANGED <<decoderVars, rpc, shown, draws,
                   aqiVars, pubsubVars, loopVars, recordVars,
                   sgpVars, envVars>>

\* line 79: the GUI calls draw_callback, which takes the lock
R_Lock ==
    /\ Running /\ rpc = "idle" /\ draws < MaxDraws /\ CanLock
    /\ lock' = "render"
    /\ rpc' = "read_a"
    /\ UNCHANGED <<decoderVars, handler, shown, draws,
                   aqiVars, pubsubVars, loopVars, recordVars,
                   sgpVars, envVars>>

\* lines 81-87: pm(), voc()
R_ReadA ==
    /\ Running /\ rpc = "read_a"
    /\ shown' = CopyFields(shown, VALUES, ReadA)
    /\ rpc' = IF voc(VALUES) = "panic" THEN "panic" ELSE "read_b"
    /\ UNCHANGED <<decoderVars, lock, handler, draws,
                   aqiVars, pubsubVars, loopVars, recordVars,
                   sgpVars, envVars>>

\* lines 88-109: the other accessors, the text lines
R_ReadB ==
    /\ Running /\ rpc = "read_b"
    /\ shown' = CopyFields(shown, VALUES, ReadB)
    /\ rpc' = "drawn"
    /\ UNCHANGED <<decoderVars, lock, handler, draws,
                   aqiVars, pubsubVars, loopVars, recordVars,
                   sgpVars, envVars>>

\* lines 111-128: the spinner; draw_callback returns and drops its guard
R_Unlock ==
    /\ Running /\ rpc = "drawn"
    /\ lock' = "free"
    /\ rpc' = "idle"
    /\ draws' = draws + 1
    /\ UNCHANGED <<decoderVars, handler, shown,
                   aqiVars, pubsubVars, loopVars, recordVars,
                   sgpVars, envVars>>

NextApp ==
    \/ \E n \in AppChunkSizes : H_Chunk(n)
    \/ H_Lock
    \/ H_Match
    \/ H_Store
    \/ H_Finish
    \/ H_Unlock
    \/ R_Lock
    \/ R_ReadA
    \/ R_ReadB
    \/ R_Unlock

SpecApp == InitApp /\ [][NextApp]_vars

(***************************************************************************)
(* Records: a client opens, clones and drops record handles, through       *)
(* furi/record.rs (OpenRecord) or furi_record.rs (Record), and asks live   *)
(* handles for the record's event bus.  holders counts the calls of the    *)
(* host's furi_record_open and furi_record_close per record name.          *)
(***************************************************************************)
\* bound: PubSub values obtained from records
MaxWrappers == 2

WrapperIds == 1..MaxWrappers

RecordApis == {"OpenRecord", "Record"}

\* a clone that copies the pointer
OpenRecord_clone_copy(hd, n) == hd

\* OpenRecord::new: sys::furi_record_open(T::NAME)
OpenRecord_new(hd, n) == [hd EXCEPT ![n].opens = @ + 1]

\* impl Clone for OpenRecord: Self::new()
OpenRecord_clone(hd, n) == OpenRecord_new(hd, n)

\* impl Drop for OpenRecord: sys::furi_record_close(T::NAME)
OpenRecord_drop(hd, n) == [hd EXCEPT ![n].closes = @ + 1]

\* furi_record.rs, Record::open: sys::furi_record_open(T::NAME)
Record_open(hd, n) == [hd EXCEPT ![n].opens = @ + 1]

\* furi_record.rs, impl Drop for Record: sys::furi_record_close(T::NAME)
Record_drop(hd, n) == [hd EXCEPT ![n].closes = @ + 1]

\* PubSub::from_raw(raw): a new PubSub value around the pointer
PubSub_from_raw(id, h, raw) == [id |-> id, handle |-> h, raw |-> raw]

\* Record<Power>::get_pubsub / Record<Storage>::get_pubsub: the host's bus of
\* the record (sys::power_get_pubsub, sys::storage_get_pubsub), wrapped anew
get_pubsub(id, h) == PubSub_from_raw(id, h, handles[h].name)

InitRecord == DecoderIdle /\ AqiIdle /\ PubSubIdle /\ OthersIdle

OpenHandle(h, n, api) ==
    /\ handles[h].state = "unborn"
    /\ handles' = [handles EXCEPT ![h] = [state |-> "live", name |-> n, api |-> api]]
    /\ holders' = IF api = "OpenRecord" THEN OpenRecord_new(holders, n)
                  ELSE Record_open(holders, n)
    /\ UNCHANGED <<wrappers, decoderVars, aqiVars, pubsubVars, appVars, loopVars,
                   sgpVars, envVars>>

CloneHandle(h, c) ==
    /\ handles[h].state = "live" /\ handles[h].api = "OpenRecord"
    /\ handles[c].state = "unborn"
    /\ handles' = [handles EXCEPT ![c] = handles[h]]
    /\ holders' = OpenRecord_clone(holders, handles[h].name)
    /\ UNCHANGED <<wrappers, decoderVars, aqiVars, pubsubVars, appVars, loopVars,
                   sgpVars, envVars>>

DropHandle(h) ==
    /\ handles[h].state = "live"
    /\ handles' = [handles EXCEPT ![h].state = "dropped"]
    /\ holders' = IF handles[h].api = "OpenRecord"
                  THEN OpenRecord_drop(holders, handles[h].name)
                  ELSE Record_drop(holders, handles[h].name)
    /\ UNCHANGED <<wrappers, decoderVars, aqiVars, pubsubVars, appVars, loopVars,
                   sgpVars, envVars>>

GetPubSub(h) ==
    /\ handles[h].state = "live"
    /\ \E id \in WrapperIds :
          /\ \A w \in wrappers : w.id # id
          /\ \A j \in WrapperIds : j < id => \E w \in wrappers : w.id = j
          /\ wrappers' = wrappers \cup {get_pubsub(id, h)}
    /\ UNCHANGED <<handles, holders, decoderVars, aqiVars, pubsubVars, appVars, loopVars,
                   sgpVars, envVars>>

\* a PubSub value goes out of scope (it has no Drop)
DropPubSub(w) ==
    /\ w \in wrappers
    /\ wrappers' = wrappers \ {w}
    /\ UNCHANGED <<handles, holders, decoderVars, aqiVars, pubsubVars, appVars, loopVars,
                   sgpVars, envVars>>

NextRecord ==
    \/ \E h \in Handles, n \in RecordNames, api \in RecordApis : OpenHandle(h, n, api)
    \/ \E h, c \in Handles : CloneHandle(h, c)
    \/ \E h \in Handles : DropHandle(h)
    \/ \E h \in Handles : GetPubSub(h)
    \/ \E w \in wrappers : DropPubSub(w)

SpecRecord == InitRecord /\ [][NextRecord]_vars

(***************************************************************************)
(* zphs01b: main.  app_input_callback puts input events into event_queue;  *)
(* each pass of the loop waits POLL_INTERVAL for one.  The serial receiver *)
(* runs the closure from serial.start() to serial.stop(); the sensor       *)
(* answers the FETCH commands.  A panic of any callback halts the          *)
(* application (mpc = "crashed").                                          *)
(***************************************************************************)
\* const CMD_FETCH: [u8; 9]
CMD_FETCH == <<255, 1, 134, 0, 0, 0, 0, 0, 121>>

\* MessageQueue::new(8)
QUEUE_CAPACITY == 8

\* bound: passes of the loop
MaxPasses == 4

\* bound: answers of the sensor that reach the closure
MaxAnswers == 1

\* sys::InputEvent: (type_, key)
InputEvents == {<<"Press", "Back">>, <<"Press", "Ok">>}

BACK_PRESS == <<"Press", "Back">>

InitLoop == DecoderIdle /\ AqiIdle /\ PubSubIdle /\ OthersIdle

\* MessageQueue::put(msg, Duration::ZERO): a full queue refuses the message
\* at once
MessageQueue_put(q, e) ==
    IF Len(q) < QUEUE_CAPACITY
    THEN [ok |-> TRUE, q |-> Append(q, e)]
    ELSE [ok |-> FALSE, q |-> q]

\* lines 239-240: serial.start()
MainStart ==
    /\ mpc = "start"
    /\ mpc' = "loop"
    /\ receiver' = "running"
    /\ UNCHANGED <<events, tx, passes, view_port, freed_update, decoderVars, aqiVars,
                   pubsubVars, appVars, recordVars,
                   sgpVars, envVars>>

\* app_input_callback: event_queue.put(*input_event, ZERO).unwrap(), called
\* by the host for every input event while the view port is shown
AppInput(e) ==
    /\ mpc \in {"start", "loop", "break", "cleanup"} /\ view_port = "added"
    /\ \E r \in {MessageQueue_put(events, e)} :
          /\ events' = r.q
          /\ mpc' = IF r.ok THEN mpc ELSE "crashed"
    /\ UNCHANGED <<tx, passes, receiver, view_port, freed_update, decoderVars, aqiVars,
                   pubsubVars, appVars, recordVars,
                   sgpVars, envVars>>

\* lines 243-248, 255-256: get times out; "Sending FETCH...", tx(&CMD_FETCH)
PassTimedOut ==
    /\ mpc = "loop" /\ passes < MaxPasses /\ events = <<>>
    /\ tx' = Append(tx, CMD_FETCH)
    /\ passes' = passes + 1
    /\ UNCHANGED <<mpc, events, receiver, view_port, freed_update, decoderVars, aqiVars,
                   pubsubVars, appVars, recordVars,
                   sgpVars, envVars>>

\* lines 249-250: Back was pressed: break
PassBack ==
    /\ mpc = "loop" /\ events # <<>> /\ Head(events) = BACK_PRESS
    /\ events' = Tail(events)
    /\ mpc' = "break"
    /\ UNCHANGED <<tx, passes, receiver, view_port, freed_update, decoderVars, aqiVars,
                   pubsubVars, appVars, recordVars,
                   sgpVars, envVars>>

\* line 251: any other event: continue
PassOther ==
    /\ mpc = "loop" /\ passes < MaxPasses
    /\ events # <<>> /\ Head(events) # BACK_PRESS
    /\ events' = Tail(events)
    /\ passes' = passes + 1
    /\ UNCHANGED <<mpc, tx, receiver, view_port, freed_update, decoderVars, aqiVars,
                   pubsubVars, appVars, recordVars,
                   sgpVars, envVars>>

\* a main that goes on to the cleanup with the receiver still running
SerialStop_skipped ==
    /\ mpc = "break"
    /\ mpc' = "cleanup"
    /\ UNCHANGED <<events, tx, passes, receiver, view_port, freed_update, decoderVars,
                   aqiVars, pubsubVars, appVars, recordVars,
                   sgpVars, envVars>>

\* line 259: serial.stop()
SerialStop ==
    /\ mpc = "break"
    /\ receiver' = "stopped"
    /\ mpc' = "cleanup"
    /\ UNCHANGED <<events, tx, passes, view_port, freed_update, decoderVars, aqiVars,
                   pubsubVars, appVars, recordVars,
                   sgpVars, envVars>>

\* line 263: view_port_enabled_set(view_port, false)
ViewPortDisable ==
    /\ mpc = "cleanup" /\ view_port = "added"
    /\ view_port' = "disabled"
    /\ UNCHANGED <<mpc, events, tx, passes, receiver, freed_update, decoderVars, aqiVars,
                   pubsubVars, appVars, recordVars,
                   sgpVars, envVars>>

\* line 264: gui_remove_view_port(gui.as_ptr(), view_port)
ViewPortRemove ==
    /\ mpc = "cleanup" /\ view_port = "disabled"
    /\ view_port' = "removed"
    /\ UNCHANGED <<mpc, events, tx, passes, receiver, freed_update, decoderVars, aqiVars,
                   pubsubVars, appVars, recordVars,
                   sgpVars, envVars>>

\* lines 265-268: view_port_free(view_port); main returns 0
ViewPortFree ==
    /\ mpc = "cleanup" /\ view_port = "removed"
    /\ view_port' = "freed"
    /\ mpc' = "returned"
    /\ UNCHANGED <<events, tx, passes, receiver, freed_update, decoderVars, aqiVars,
                   pubsubVars, appVars, recordVars,
                   sgpVars, envVars>>

\* the sensor answers a FETCH command and the running receiver calls the
\* closure with the frame; the closure ends with view_port_update(view_port)
\* (lines 234-236) when it accepts the frame
SensorAnswer ==
    /\ receiver = "running" /\ mpc # "crashed"
    /\ Len(scenario) < Min(Len(tx), MaxAnswers)
    /\ \E m \in FewReadings :
          \E r \in {async_receiver(State, EncodeFrame(m))} :
             /\ scenario' = Append(scenario, [m |-> m, byte |-> 0, bit |-> 0])
             /\ stream' = stream \o EncodeFrame(m)
             /\ pos' = pos + RESPONSE_SIZE
             /\ buffer' = r.st.buffer
             /\ VALUES' = r.st.VALUES
             /\ SAMPLE_COUNT' = r.st.SAMPLE_COUNT
             /\ notifications' = r.st.notifications
             /\ updates' = r.st.updates
             /\ published' = r.st.published
             /\ last' = [kind |-> r.kind, one_byte |-> FALSE, surplus |-> FALSE,
                         effects |-> r.st.effects]
             /\ freed_update' = (freed_update
                                 \/ (r.st.updates > updates /\ view_port = "freed"))
    /\ UNCHANGED <<mpc, events, tx, passes, receiver, view_port, aqiVars,
                   pubsubVars, appVars, recordVars,
                   sgpVars, envVars>>

NextLoop ==
    \/ MainStart
    \/ \E e \in InputEvents : AppInput(e)
    \/ PassTimedOut
    \/ PassBack
    \/ PassOther
    \/ SerialStop
    \/ ViewPortDisable
    \/ ViewPortRemove
    \/ ViewPortFree
    \/ SensorAnswer

SpecLoop == InitLoop /\ [][NextLoop]_vars

(***************************************************************************)
(* sgp30: main calls read_sgp30 on every pass of its loop that does not    *)
(* end it; the GUI calls draw_callback.                                    *)
(***************************************************************************)
\* bound: calls of read_sgp30
MaxReads == 18

\* what the I2C transfers of sgp30_measure_iaq give: an error, or the 6
\* bytes CO2eq (big endian), CRC, TVOC (big endian), CRC
SgpAnswers ==
    {[ok |-> FALSE, buffer |-> <<0, 0, 0, 0, 0, 0>>],
     [ok |-> TRUE, buffer |-> <<1, 144, 76, 0, 0, 129>>],
     [ok |-> TRUE, buffer |-> <<1, 194, 10, 0, 7, 20>>],
     [ok |-> TRUE, buffer |-> <<3, 232, 30, 1, 44, 40>>]}

InitSgp == DecoderIdle /\ AqiIdle /\ PubSubIdle /\ OthersIdle

\* line 154: read_sgp30(device, &mut bus, view_port)
ReadSgp30(rx) ==
    /\ sgp_reads < MaxReads
    /\ \E r \in {read_sgp30([state |-> sgp_STATE, CURRENT_SAMPLE |-> CURRENT_SAMPLE,
                             updates |-> sgp_updates], rx)} :
          /\ sgp_STATE' = r.state
          /\ CURRENT_SAMPLE' = r.CURRENT_SAMPLE
          /\ sgp_updates' = r.updates
    /\ sgp_reads' = sgp_reads + 1
    /\ sgp_last' = rx
    /\ UNCHANGED <<sgp_screen, decoderVars, aqiVars, pubsubVars, appVars, loopVars,
                   recordVars, envVars>>

\* draw_callback (lines 81-107)
SgpDraw ==
    /\ sgp_screen' = sgp30_draw(sgp_STATE)
    /\ UNCHANGED <<sgp_STATE, CURRENT_SAMPLE, sgp_updates, sgp_reads, sgp_last,
                   decoderVars, aqiVars, pubsubVars, appVars, loopVars, recordVars,
                   envVars>>

NextSgp ==
    \/ \E rx \in SgpAnswers : ReadSgp30(rx)
    \/ SgpDraw

SpecSgp == InitSgp /\ [][NextSgp]_vars

(***************************************************************************)
(* nicla_sense_env.rs: outdoor_rmox, indoor_rmox and indoor_rcda, one      *)
(* iteration of their loop at a time, on a register block that read_exact  *)
(* has read.                                                               *)
(***************************************************************************)
\* bound: register blocks tried
MaxBlocks == 4

\* a register block of len bytes
Block(k, len) == [i \in 1..len |-> (k * i * i + 3 * k) % U8]

InitRmox == DecoderIdle /\ AqiIdle /\ PubSubIdle /\ OthersIdle

\* let mut buf = [0u8; 4 * N]; read_exact(.., &mut buf).unwrap();
\* let mut values = [0.0; N];
RmoxCall(fn, k) ==
    /\ rmox.pc \in {"idle", "returned"}
    /\ rmox' = [fn |-> fn, buf |-> Block(k, 4 * RmoxFns[fn]),
                values |-> [i \in 1..RmoxFns[fn] |-> F32_ZERO], n |-> 0, pc |-> "loop"]
    /\ UNCHANGED <<status_reg, mode_set, mode_got, decoderVars, aqiVars, pubsubVars,
                   appVars, loopVars, recordVars, sgpVars>>

\* for (n, b) in buf.windows(4).enumerate() { values[n] = f32::from_le_bytes(..) }
\* and `values`: an index past the array panics
RmoxStep ==
    /\ rmox.pc = "loop"
    /\ rmox' = IF rmox.n >= windows_count(rmox.buf)
               THEN [rmox EXCEPT !.pc = "returned"]
               ELSE IF rmox.n >= Len(rmox.values)
               THEN [rmox EXCEPT !.pc = "panic"]
               ELSE [rmox EXCEPT !.values[rmox.n + 1] =
                                     f32_from_le_bytes(window(rmox.buf, rmox.n)),
                                 !.n = @ + 1]
    /\ UNCHANGED <<status_reg, mode_set, mode_got, decoderVars, aqiVars, pubsubVars,
                   appVars, loopVars, recordVars, sgpVars>>

NextRmox ==
    \/ \E fn \in DOMAIN RmoxFns, k \in 1..MaxBlocks : RmoxCall(fn, k)
    \/ RmoxStep

SpecRmox == InitRmox /\ [][NextRmox]_vars

(***************************************************************************)
(* nicla_sense_env.rs: the sensor modes in the status register.  The board *)
(* keeps in the register what set_*_sensor_mode writes; its own firmware   *)
(* may put any status there.                                               *)
(***************************************************************************)
\* the status bytes whose mode fields hold a mode
ValidStatus ==
    {v \in 0..(U8 - 1) :
        /\ outdoor_sensor_mode(v) # "panic"
        /\ indoor_sensor_mode(v) # "panic"}

InitMode == DecoderIdle /\ AqiIdle /\ PubSubIdle /\ OthersIdle

\* the board's firmware sets the register (power-up, reset, restored defaults)
BoardStatus(v) ==
    /\ status_reg' = v
    /\ mode_set' = NoModes
    /\ mode_got' = NoModes
    /\ UNCHANGED <<rmox, decoderVars, aqiVars, pubsubVars, appVars, loopVars,
                   recordVars, sgpVars>>

\* set_outdoor_sensor_mode(mode); ok is whether write_u8 succeeds
SetOutdoor(mode, ok) ==
    /\ IF ok
       THEN /\ status_reg' = set_outdoor_sensor_mode(status_reg, mode)
            /\ mode_set' = [mode_set EXCEPT !.outdoor = mode]
            /\ mode_got' = NoModes
       ELSE UNCHANGED <<status_reg, mode_set, mode_got>>
    /\ UNCHANGED <<rmox, decoderVars, aqiVars, pubsubVars, appVars, loopVars,
                   recordVars, sgpVars>>

\* set_indoor_sensor_mode(mode); ok is whether write_u8 succeeds
SetIndoor(mode, ok) ==
    /\ IF ok
       THEN /\ status_reg' = set_indoor_sensor_mode(status_reg, mode)
            /\ mode_set' = [mode_set EXCEPT !.indoor = mode]
            /\ mode_got' = NoModes
       ELSE UNCHANGED <<status_reg, mode_set, mode_got>>
    /\ UNCHANGED <<rmox, decoderVars, aqiVars, pubsubVars, appVars, loopVars,
                   recordVars, sgpVars>>

\* outdoor_sensor_mode()
GetOutdoor ==
    /\ mode_got' = [mode_got EXCEPT !.outdoor = outdoor_sensor_mode(status_reg)]
    /\ UNCHANGED <<status_reg, mode_set, rmox, decoderVars, aqiVars, pubsubVars, appVars,
                   loopVars, recordVars, sgpVars>>

\* indoor_sensor_mode()
GetIndoor ==
    /\ mode_got' = [mode_got EXCEPT !.indoor = indoor_sensor_mode(status_reg)]
    /\ UNCHANGED <<status_reg, mode_set, rmox, decoderVars, aqiVars, pubsubVars, appVars,
                   loopVars, recordVars, sgpVars>>

NextMode ==
    \/ \E v \in ValidStatus : BoardStatus(v)
    \/ \E mode \in DOMAIN OutdoorSensorMode, ok \in BOOLEAN : SetOutdoor(mode, ok)
    \/ \E mode \in DOMAIN IndoorSensorMode, ok \in BOOLEAN : SetIndoor(mode, ok)
    \/ GetOutdoor
    \/ GetIndoor

SpecMode == InitMode /\ [][NextMode]_vars

(***************************************************************************)
(* Properties of the decoder                                               *)
(***************************************************************************)
OneFrame == Len(scenario) = 1

\* C1: chunk-boundary independence.  When the stream is one intact frame,
\* then however it is cut into chunks nothing is published before its last
\* byte arrives, and once it has arrived exactly one Measurement has been
\* published: the one the frame encodes.
C1_ChunkBoundaryIndependence ==
    (OneFrame /\ Intact(scenario[1])) =>
        /\ pos < RESPONSE_SIZE => published = <<>>
        /\ pos = RESPONSE_SIZE =>
              published = <<scenario[1].m>> /\ VALUES = scenario[1].m

\* the test frame has arrived byte-wise at its end and has been published
C1_Witness ==
    /\ OneFrame /\ Intact(scenario[1])
    /\ pos = RESPONSE_SIZE /\ last.one_byte
    /\ published = <<TEST_MEASUREMENT>>

\* C2: resynchronization.  When the stream is a frame with a wrong checksum
\* followed by an intact frame, then once the whole stream has been delivered
\* the last Measurement published is that of the intact frame.
C2_Resynchronization ==
    (/\ Len(scenario) = 2 /\ ~Intact(scenario[1]) /\ Intact(scenario[2])
     /\ pos = Len(stream)) =>
        /\ published # <<>>
        /\ published[Len(published)] = scenario[2].m

\* C13: a handler invocation signals a notification exactly when it accepts a
\* frame whose tier differs from the tier of the Measurement stored before it
\* (at first the all-zero Measurement, Good); it then signals one, carrying
\* the new tier.  Every other invocation signals none.
C13_NotifyOnTierChange ==
    [][IF last'.kind = "accept" /\ air_quality_index(VALUES') # air_quality_index(VALUES)
       THEN notifications' = Append(notifications, air_quality_index(VALUES'))
       ELSE notifications' = notifications]_vars

\* two accepted frames of the same tier, one notification
C13_Witness ==
    /\ published = <<TEST_MEASUREMENT, TEST_MEASUREMENT>>
    /\ notifications = <<"Hazardous">>

\* decimal values as doubles
D_25_5 == F64(<<1, 9, 8, 0, 0, 0, 0, 0, 0, 0, 0, 0, 0, 0>>, -48)
D_26_5 == F64(<<1, 10, 8, 0, 0, 0, 0, 0, 0, 0, 0, 0, 0, 0>>, -48)
D_0_040 == F64(<<1, 4, 7, 10, 14, 1, 4, 7, 10, 14, 1, 4, 7, 11>>, -57)
D_0_5 == F64(<<1, 0, 0, 0, 0, 0, 0, 0, 0, 0, 0, 0, 0, 0>>, -53)
D_0_32 == F64(<<1, 4, 7, 10, 14, 1, 4, 7, 10, 14, 1, 4, 7, 11>>, -54)
D_0_80 == F64(<<1, 9, 9, 9, 9, 9, 9, 9, 9, 9, 9, 9, 9, 10>>, -53)

\* the test frame has arrived and the current Measurement has the values
\* listed with the test data, its temperature being t degrees
TestFrameDecodes(t) ==
    (stream = TEST_DATA /\ pos = RESPONSE_SIZE) =>
        /\ last.kind = "accept"
        /\ VALUES.pm_1 = 101 /\ VALUES.pm_2_5 = 54 /\ VALUES.pm_10 = 150
        /\ VALUES.co2 = 410 /\ VALUES.voc = 0
        /\ ~temperature(VALUES).neg /\ F64Eq(temperature(VALUES), t)
        /\ VALUES.relative_humidity = 40
        /\ F64Eq(ch2o(VALUES), D_0_040)
        /\ F64Eq(co(VALUES), D_0_5)
        /\ F64Eq(o3(VALUES), D_0_32)
        /\ F64Eq(no2(VALUES), D_0_80)

\* C14: the frame TEST_DATA is accepted and decodes to PM1.0 = 101,
\* PM2.5 = 54, PM10 = 150, CO2 = 410, VOC = 0, temperature = 25.5 C,
\* humidity = 40 %, formaldehyde = 0.040 mg/m3, CO = 0.5 ppm, O3 = 0.32 ppm
\* and NO2 = 0.80 ppm.
C14_TestFrameDecodes == TestFrameDecodes(D_25_5)

\* the same with the temperature the bytes 02 FD stand for
C14_TestFrameDecodes_26_5 == TestFrameDecodes(D_26_5)

\* the thresholds of the first test of air_quality_index
HAZARDOUS == Thresholds[1]
VERY_UNHEALTHY == Thresholds[2]

\* the test frame has been decoded and is the current Measurement
TestFrameCurrent ==
    stream = TEST_DATA /\ pos = RESPONSE_SIZE /\ VALUES = TEST_MEASUREMENT

\* C15 as stated: the Measurement decoded from the test frame is classified
\* Hazardous, and both its O3 value and its NO2 value exceed the Hazardous
\* thresholds.
C15_TestFrameHazardous_O3_NO2 ==
    TestFrameCurrent =>
        /\ air_quality_index(VALUES) = "Hazardous"
        /\ F64Gt(o3(VALUES), HAZARDOUS.o3)
        /\ F64Gt(no2(VALUES), HAZARDOUS.no2)

\* C15, amended: the Measurement decoded from the test frame is classified
\* Hazardous (and signalled as such); its O3 value exceeds the Hazardous
\* threshold, while its NO2 value exceeds the Very Unhealthy threshold but
\* not the Hazardous one.
C15_TestFrameHazardous_O3 ==
    TestFrameCurrent =>
        /\ air_quality_index(VALUES) = "Hazardous"
        /\ notifications = <<"Hazardous">>
        /\ F64Gt(o3(VALUES), HAZARDOUS.o3)
        /\ F64Gt(no2(VALUES), VERY_UNHEALTHY.no2)
        /\ ~F64Gt(no2(VALUES), HAZARDOUS.no2)

\* the test frame has been accepted and its tier signalled
C15_Witness == TestFrameCurrent /\ last.kind = "accept" /\ notifications # <<>>

\* C16: checksum round trip.  A 26-byte buffer is accepted exactly when its
\* byte 25 is the two's-complement negation of the sum modulo 256 of the
\* bytes the checksum covers, that is when those bytes and byte 25 sum to 0
\* modulo 256; so a frame that ends in calculate_checksum of its covered
\* bytes is accepted.  Stated of the frame on the wire once it has arrived,
\* and of that frame with every possible last byte.
C16_ChecksumRoundTrip ==
    (OneFrame /\ pos = RESPONSE_SIZE) =>
        LET covered == Slice(stream, 1, 25)
            sum     == WrappingSum(covered)
        IN  /\ last.kind = "accept" <=> (sum + stream[25 + 1]) % U8 = 0
            /\ last.kind \in {"accept", "reject"}
            /\ \A c \in 0..(U8 - 1) :
                  Measurement_try_from([stream EXCEPT ![25 + 1] = c]).ok
                      <=> c = (U8 - sum) % U8
            /\ Measurement_try_from(
                  [stream EXCEPT ![25 + 1] = calculate_checksum(covered)]).ok

\* a frame whose covered bytes sum past 255 several times has been accepted
C16_Witness ==
    /\ OneFrame /\ pos = RESPONSE_SIZE /\ last.kind = "accept"
    /\ scenario[1].m.co2 = U16_MAX

\* C17: between handler invocations, a frame buffer that is not empty begins
\* with the start marker 0xFF.
C17_BufferStartsWithMarker == buffer # <<>> => buffer[1] = START_BIT

\* the buffer was begun after earlier chunks had been thrown away: it starts
\* at a 0xFF that is not the first byte of a frame
C17_Witness ==
    /\ buffer # <<>> /\ buffer[1] = START_BIT
    /\ (pos - Len(buffer)) % RESPONSE_SIZE # 0

\* the chunks the transport may deliver next
NextChunks == {SubSeq(stream, pos + 1, pos + n) : n \in 1..(Len(stream) - pos)}

\* C18: between handler invocations the frame buffer holds 0..25 bytes; no
\* chunk makes it grow beyond 26 bytes inside the handler; and an invocation
\* that fills it to 26 bytes leaves it empty, whether the frame was accepted
\* or rejected.
C18_BufferBounded ==
    /\ [](/\ Len(buffer) < RESPONSE_SIZE
          /\ \A data \in NextChunks :
                Len(buffer) + to_read(data, buffer) <= RESPONSE_SIZE)
    /\ [][last'.kind \in {"accept", "reject"} => buffer' = <<>>]_vars
    /\ [][Len(buffer) + Min(pos' - pos, RESPONSE_SIZE - Len(buffer)) = RESPONSE_SIZE
          /\ last'.kind # "discard" => last'.kind \in {"accept", "reject"}]_vars

\* a chunk longer than the room left filled the buffer with a frame that was
\* rejected, and the buffer is empty again
C18_Witness == last.kind = "reject" /\ last.surplus /\ buffer = <<>>

\* the positions of the start markers in the chunk pos+1 .. to
MarkersUpTo(to) == {i \in (pos + 1)..to : stream[i] = START_BIT}

\* C19: in the Seeking state (empty buffer), a chunk whose first byte is not
\* 0xFF but which holds a 0xFF further on is not discarded in whole: the
\* bytes before the first marker are dropped and the chunk from the marker on
\* is taken into the buffer.
C19_SkipsOnlyToMarker ==
    [][(buffer = <<>> /\ stream[pos + 1] # START_BIT /\ MarkersUpTo(pos') # {}) =>
          /\ last'.kind # "discard"
          /\ last'.kind = "partial" =>
                \E i \in MarkersUpTo(pos') :
                    /\ \A j \in MarkersUpTo(pos') : i <= j
                    /\ buffer' = SubSeq(stream, i, pos')]_vars

\* the 26 bytes of the stream from position i
Window(i) == SubSeq(stream, i, i + RESPONSE_SIZE - 1)

\* where, up to position `to`, a 26-byte stretch of the stream begins that
\* starts with the start marker and passes the checksum
ValidStarts(to) ==
    {i \in 1..(to - RESPONSE_SIZE + 1) :
        /\ stream[i] = START_BIT
        /\ calculate_checksum(Slice(Window(i), 1, 25)) = stream[i + 25]}

\* C20: the current Measurement is the all-zero value or the complete parse
\* of one 26-byte buffer that began with 0xFF and passed the checksum, taken
\* from the bytes delivered so far; it changes only when a frame is accepted,
\* and then every field comes from the buffer that invocation completed.
C20_MeasurementWhole ==
    /\ [](\/ VALUES = Measurement_new
          \/ \E i \in ValidStarts(pos) : VALUES = ParseFields(Window(i)))
    /\ [][VALUES' # VALUES =>
             /\ last'.kind = "accept"
             /\ \E i \in ValidStarts(pos') :
                   /\ i + RESPONSE_SIZE - 1 > pos
                   /\ VALUES' = ParseFields(Window(i))]_vars

\* a second frame has replaced the Measurement of the first
C20_Witness ==
    /\ Len(published) = 2 /\ published[1] # published[2]
    /\ VALUES = published[2] /\ published[1] = TEST_MEASUREMENT

C28_SurplusDropped ==
    /\ [][last'.surplus =>
             /\ last'.kind \in {"accept", "reject"}
             /\ buffer' = <<>>
             /\ Len(published') <= Len(published) + 1]_vars
    /\ [][(/\ Len(scenario) = 2 /\ Intact(scenario[1]) /\ Intact(scenario[2])
           /\ pos = 0 /\ pos' = 2 * RESPONSE_SIZE) =>
             /\ published' = <<scenario[1].m>>
             /\ VALUES' = scenario[1].m]_vars

\* two different intact frames came as one chunk; the first is on display
C28_Witness ==
    /\ Len(scenario) = 2 /\ Intact(scenario[1]) /\ Intact(scenario[2])
    /\ scenario[1].m # scenario[2].m
    /\ pos = 2 * RESPONSE_SIZE /\ last.surplus /\ SAMPLE_COUNT = 1 /\ updates = 1
    /\ VALUES = scenario[1].m

\* C22 as stated: an invocation that accepts a frame replaces the shared
\* Measurement, then increments the sample counter, then signals the
\* notification (when the tier changed), and last signals the display refresh.
C22_EffectsOrder_CountFirst ==
    last.kind = "accept" =>
        last.effects \in {<<"store", "count", "notify", "refresh">>,
                          <<"store", "count", "refresh">>}

\* C22, amended: an invocation that accepts a frame replaces the shared
\* Measurement, then signals the notification (when the tier changed), then
\* increments the sample counter, and last signals the display refresh; an
\* invocation that accepts none has none of these effects.
C22_EffectsOrder ==
    /\ last.kind = "accept" =>
          last.effects \in {<<"store", "notify", "count", "refresh">>,
                            <<"store", "count", "refresh">>}
    /\ last.kind # "accept" => last.effects = <<>>

\* a frame was accepted and its tier, a new one, was signalled
C22_Witness ==
    /\ last.kind = "accept" /\ Len(last.effects) = 4
    /\ notifications = <<"Hazardous">> /\ SAMPLE_COUNT = 1 /\ updates = 1

\* C25: no Measurement that is published has a VOC byte outside 0..3, so
\* Measurement::voc, which the render path calls, never reaches its
\* 'unexpected VOC value' panic.
C25_VocInRange ==
    /\ \A i \in 1..Len(published) : published[i].voc \in 0..3
    /\ voc(VALUES) # "panic"

\* C24: recovery from a transport glitch.  Whatever stray bytes left in the
\* buffer, once intact frames arrive each as one 26-byte chunk, a Measurement
\* has been published after two of them at most, and every such chunk from
\* the second on is accepted and published; with nothing left in the buffer
\* the first is published as well.
C24_GlitchRecovery ==
    /\ [](Len(scenario) >= 2 => published # <<>>)
    /\ [][(Len(scenario') = Len(scenario) + 1 /\ (Len(scenario) >= 1 \/ buffer = <<>>)) =>
             /\ last'.kind = "accept"
             /\ published' = Append(published, scenario'[Len(scenario')].m)
             /\ VALUES' = scenario'[Len(scenario')].m]_vars

\* stray bytes spoiled the first whole frame, and the second was published
C24_Witness ==
    /\ Len(scenario) = 2 /\ published = <<scenario[2].m>>
    /\ scenario[1].m # scenario[2].m /\ last.kind = "accept"

\* C3: a frame whose checksum byte has one bit inverted is never published.
C3_ChecksumBitFlipRejected ==
    (OneFrame /\ scenario[1].byte = CHECKSUM_BYTE) =>
        /\ published = <<>>
        /\ VALUES = Measurement_new
        /\ last.kind # "accept"

\* such a frame has arrived whole and has been rejected
C3_Witness ==
    /\ OneFrame /\ scenario[1].byte = CHECKSUM_BYTE /\ scenario[1].bit = 7
    /\ pos = RESPONSE_SIZE /\ last.kind = "reject"

\* C4: a handler invocation that completes a frame and finds its checksum
\* wrong leaves the current Measurement (and so its tier) and the sample
\* counter as they were, and signals neither a notification nor a display
\* refresh.
C4_RejectLeavesReadingStale ==
    [][last'.kind = "reject" =>
          UNCHANGED <<VALUES, SAMPLE_COUNT, notifications, updates, published,
                   sgpVars, envVars>>]_vars

\* a frame was rejected while an earlier reading is on display
C4_Witness ==
    /\ last.kind = "reject"
    /\ VALUES = TEST_MEASUREMENT /\ SAMPLE_COUNT = 1 /\ updates = 1

(***************************************************************************)
(* Properties of the classifier                                            *)
(***************************************************************************)
\* The tiers as the specification tabulates them, most severe first, on the
\* raw integers: O3 and NO2 in thousandths of a ppm (raw * 10), CO in tenths.
TierTable == <<
    [tier |-> "Hazardous", o3 |-> 200, pm_2_5 |-> 250, pm_10 |-> 424, co |-> 300, no2 |-> 1249],
    [tier |-> "VeryUnhealthy", o3 |-> 105, pm_2_5 |-> 150, pm_10 |-> 354, co |-> 154, no2 |-> 649],
    [tier |-> "Unhealthy", o3 |-> 85, pm_2_5 |-> 55, pm_10 |-> 254, co |-> 124, no2 |-> 360],
    [tier |-> "Sensitive", o3 |-> 70, pm_2_5 |-> 35, pm_10 |-> 154, co |-> 94, no2 |-> 100],
    [tier |-> "Moderate", o3 |-> 54, pm_2_5 |-> 12, pm_10 |-> 54, co |-> 44, no2 |-> 53] >>

Exceeds(m, t) ==
    \/ m.o3 * 10 > t.o3
    \/ m.pm_2_5 > t.pm_2_5
    \/ m.pm_10 > t.pm_10
    \/ m.co > t.co
    \/ m.no2 * 10 > t.no2

\* the most severe tier one of whose thresholds m exceeds, else Good
MostSevereExceeded(m) ==
    IF \E i \in 1..Len(TierTable) : Exceeds(m, TierTable[i])
    THEN TierTable[CHOOSE i \in 1..Len(TierTable) :
                      /\ Exceeds(m, TierTable[i])
                      /\ \A j \in 1..(i - 1) : ~Exceeds(m, TierTable[j])].tier
    ELSE "Good"

\* C10: air_quality_index returns the most severe tier for which one of O3,
\* PM2.5, PM10, CO, NO2 strictly exceeds the tier's threshold, and Good when
\* none exceeds a Moderate threshold.
C10_MostSevereTier == tier # "none" => tier = MostSevereExceeded(input)

\* CO of exactly 30.0 ppm does not exceed the Hazardous threshold
C10_Witness == tier = "VeryUnhealthy" /\ input.co = 300

\* the severity of a tier in Good < Moderate < .. < Hazardous
Rank(t) == CHOOSE i \in 1..Len(AirQualityIndex) : AirQualityIndex[i] = t

\* the raw values a field holding v is raised to: the next one and the largest
Raised(v) == {x \in {v + 1, U16_MAX} : x > v}

\* C11: classifier monotonicity.  Raising one of O3, PM2.5, PM10, CO, NO2 of a
\* Measurement, the other fields unchanged, never gives a less severe tier.
C11_ClassifierMonotone ==
    tier # "none" =>
        \A f \in Monitored : \A x \in Raised(input[f]) :
            Rank(air_quality_index([input EXCEPT ![f] = x])) >= Rank(tier)

\* a reading just under the Moderate O3 threshold, which one more step crosses
C11_Witness ==
    /\ tier = "Good" /\ input.o3 = 5
    /\ air_quality_index([input EXCEPT !.o3 = 6]) = "Moderate"

\* values for the fields the classifier does not read
OtherProfiles ==
    { [pm_1 |-> 0, co2 |-> 0, voc |-> 0, temp |-> 0, relative_humidity |-> 0, ch2o |-> 0],
      [pm_1 |-> 101, co2 |-> 410, voc |-> 0, temp |-> 765, relative_humidity |-> 40,
       ch2o |-> 40],
      [pm_1 |-> U16_MAX, co2 |-> U16_MAX, voc |-> U8 - 1, temp |-> U16_MAX,
       relative_humidity |-> U16_MAX, ch2o |-> U16_MAX] }

\* m with its unread fields replaced by those of p
WithOthers(m, p) ==
    [m EXCEPT !.pm_1 = p.pm_1, !.co2 = p.co2, !.voc = p.voc, !.temp = p.temp,
              !.relative_humidity = p.relative_humidity, !.ch2o = p.ch2o]

\* C12: a Measurement's tier depends on O3, PM2.5, PM10, CO and NO2 only: a
\* Measurement with the same five values and any PM1.0, CO2, VOC, temperature,
\* humidity and formaldehyde gets the same tier, and so does the Measurement
\* itself when classified again.
C12_TierIgnoresOtherFields ==
    tier # "none" =>
        /\ air_quality_index(input) = tier
        /\ \A p \in OtherProfiles : air_quality_index(WithOthers(input, p)) = tier

\* the largest PM1.0 with clean air otherwise is classified Good
C12_Witness == tier = "Good" /\ input.pm_1 = U16_MAX

(***************************************************************************)
(* Properties of the decoder and the render callback side by side          *)
(***************************************************************************)
\* C21: under every interleaving of the closure and draw_callback, the values
\* a draw has read once it has read them all are those of one Measurement:
\* the initial one or one published, never fields of two frames.  The copy
\* into VALUES and the reads happen only while their context holds the lock.
C21_RenderSeesWholeMeasurement ==
    /\ rpc = "drawn" =>
          \/ shown = Measurement_new
          \/ \E i \in 1..Len(published) : shown = published[i]
    /\ handler.pc \in {"match", "store_a", "store_b", "finish", "unlock"} => lock = "decoder"
    /\ rpc \in {"read_a", "read_b", "drawn"} => lock = "render"

\* a draw has read the second of two different Measurements, whole
C21_Witness ==
    /\ rpc = "drawn" /\ Len(published) = 2 /\ published[1] # published[2]
    /\ shown = published[2]

\* C23: the closure never waits for another execution context: it is never
\* at VALUES.lock() while draw_callback holds the lock.
C23_HandlerNeverWaits == ~(handler.pc = "lock" /\ lock = "render")

\* C33: the Mutex of VALUES is held by at most one of the closure and
\* draw_callback: the closure is between its lock() and its return exactly
\* when it holds the Mutex, and so is draw_callback.  Each has released the
\* Mutex when it has returned, on the Err path of the closure as well; and
\* whoever waits for the Mutex waits for a holder that is running, not
\* waiting itself.
C33_LockExclusive ==
    /\ ~(handler.pc \in {"match", "store_a", "store_b", "finish", "unlock"}
         /\ rpc \in {"read_a", "read_b", "drawn"})
    /\ (lock = "decoder") = (handler.pc \in {"match", "store_a", "store_b", "finish", "unlock"})
    /\ (lock = "render") = (rpc \in {"read_a", "read_b", "drawn", "panic"})
    /\ (handler.pc = "idle" /\ rpc = "idle") => lock = "free"
    /\ (Running /\ handler.pc = "lock" /\ ~CanLock) => rpc \in {"read_a", "read_b", "drawn"}

\* the closure rejected a frame and returned, and draw_callback took the
\* Mutex after it
C33_Witness ==
    /\ last.kind = "reject" /\ handler.pc = "idle" /\ buffer = <<>>
    /\ lock = "render" /\ rpc = "read_a" /\ draws = 1

(***************************************************************************)
(* Properties of the records                                               *)
(***************************************************************************)
LiveHandles(n) == {h \in Handles : handles[h].state = "live" /\ handles[h].name = n}

\* C26: at most one PubSub value wraps a given host bus at a time: asking a
\* record for its bus again makes no second live wrapper of the same bus.
C26_OneWrapperPerBus ==
    \A w1, w2 \in wrappers : w1.raw = w2.raw => w1 = w2

\* C27: for each record name, the host opens less the host closes made by the
\* wrappers equal the number of live handles, clones included; so the host
\* record is held as long as one handle is live.
C27_HoldersMatchHandles ==
    \A n \in RecordNames :
        /\ holders[n].opens - holders[n].closes = Cardinality(LiveHandles(n))
        /\ LiveHandles(n) # {} => holders[n].opens > holders[n].closes

\* a handle and its clone were opened, the original was dropped, and the
\* clone still holds the record
C27_Witness ==
    /\ holders["power"] = [opens |-> 2, closes |-> 1]
    /\ \E h \in Handles : handles[h].state = "dropped" /\ handles[h].api = "OpenRecord"
    /\ Cardinality(LiveHandles("power")) = 1

(***************************************************************************)
(* Properties of the main loop                                             *)
(***************************************************************************)
\* C29: every pass of the main loop that does not leave it transmits the
\* command FF 01 86 00 00 00 00 00 79 once, so input events other than a Back
\* press do not put off the FETCH command.
C29_EveryPassPolls ==
    [][(mpc = "loop" /\ passes' = passes + 1) => tx' = Append(tx, CMD_FETCH)]_vars

\* C31: app_input_callback never fails: however many input events arrive
\* between two dequeues of the main loop, each is enqueued or dropped and
\* the callback does not panic.
C31_InputNeverFails == mpc # "crashed"

\* C32: once the Back press is handled, the receiver is stopped before the
\* view port is disabled, removed and freed, and the closure never calls
\* view_port_update on the freed view port.
C32_StopBeforeFree ==
    /\ view_port # "added" => receiver = "stopped"
    /\ ~freed_update

\* the closure had refreshed the display while the application ran, and the
\* view port has been freed since
C32_Witness == view_port = "freed" /\ updates > 0 /\ Len(tx) > 1

(***************************************************************************)
(* Properties of sgp30                                                     *)
(***************************************************************************)
\* C35: sgp30.  STATE keeps State::new() and the screen says "Warming up..."
\* until 16 measurements have succeeded and been counted; a failed
\* measurement changes neither STATE nor CURRENT_SAMPLE; a measurement that
\* succeeds is counted, and from the 17th on it replaces STATE with the
\* CO2eq and TVOC of its bytes and updates the view port.
C35_WarmUp ==
    /\ [](CURRENT_SAMPLE <= 16 =>
            /\ sgp_STATE = State_new /\ sgp_updates = 0
            /\ sgp_screen \in {<<>>, <<"Warming up...">>})
    /\ [][sgp_reads' = sgp_reads + 1 =>
            IF ~sgp_last'.ok
            THEN UNCHANGED <<sgp_STATE, CURRENT_SAMPLE, sgp_updates>>
            ELSE /\ CURRENT_SAMPLE' = CURRENT_SAMPLE + 1
                 /\ CURRENT_SAMPLE >= 16 =>
                       /\ sgp_STATE' =
                             [co2_eq |-> 256 * sgp_last'.buffer[1] + sgp_last'.buffer[2],
                              tvoc |-> 256 * sgp_last'.buffer[4] + sgp_last'.buffer[5]]
                       /\ sgp_updates' = sgp_updates + 1]_vars

\* 17 measurements succeeded and one failed; the 17th, CO2eq 450 ppm and
\* TVOC 7 ppb, is on the screen
C35_Witness ==
    /\ CURRENT_SAMPLE = 17 /\ sgp_reads = 18 /\ sgp_updates = 1
    /\ sgp_STATE = [co2_eq |-> 450, tvoc |-> 7]
    /\ sgp_screen = <<"SGP30 Gas Sensor", <<"CO2eq", 450>>, <<"TVOC", 7>>>>

(***************************************************************************)
(* Properties of nicla_sense_env.rs                                        *)
(***************************************************************************)
\* the f32 of bytes 4n..4n+3 of the block
BlockValue(buf, n) == f32_from_le_bytes(SubSeq(buf, 4 * n + 1, 4 * n + 4))

\* C36: outdoor_rmox, indoor_rmox and indoor_rcda write inside their result
\* arrays only (no index panics), and the array returned has at index n the
\* value of bytes 4n..4n+3 of the block read.
C36_RmoxIndexed ==
    /\ rmox.pc # "panic"
    /\ rmox.pc = "loop" => rmox.n <= Len(rmox.values)
    /\ rmox.pc = "returned" =>
          \A n \in 0..(Len(rmox.values) - 1) :
             rmox.values[n + 1] = BlockValue(rmox.buf, n)

\* bits 4-5 and bits 1-3 of a status byte, and the byte without them
OutdoorField(s) == (s \div 16) % 4
IndoorField(s) == (s \div 2) % 8
WithoutOutdoor(s) == s - 16 * OutdoorField(s)
WithoutIndoor(s) == s - 2 * IndoorField(s)

\* C37: a set_outdoor_sensor_mode that is written changes bits 4-5 of the
\* status register to the mode and no other bit, a set_indoor_sensor_mode
\* bits 1-3 and no other bit; as long as the board keeps what was written,
\* the register decodes to the modes set and outdoor_sensor_mode and
\* indoor_sensor_mode return them.
C37_ModeFieldsOnly ==
    /\ [][/\ mode_set'.outdoor \notin {"none", mode_set.outdoor} =>
               /\ WithoutOutdoor(status_reg') = WithoutOutdoor(status_reg)
               /\ OutdoorField(status_reg') = OutdoorSensorMode[mode_set'.outdoor]
          /\ mode_set'.indoor \notin {"none", mode_set.indoor} =>
               /\ WithoutIndoor(status_reg') = WithoutIndoor(status_reg)
               /\ IndoorField(status_reg') = IndoorSensorMode[mode_set'.indoor]]_vars
    /\ [](/\ mode_set.outdoor # "none" =>
               /\ OutdoorField(status_reg) = OutdoorSensorMode[mode_set.outdoor]
               /\ mode_got.outdoor \in {"none", mode_set.outdoor}
          /\ mode_set.indoor # "none" =>
               /\ IndoorField(status_reg) = IndoorSensorMode[mode_set.indoor]
               /\ mode_got.indoor \in {"none", mode_set.indoor})

\* on a register with the temperature, deep-sleep and reset bits set, both
\* modes were set and both read back
C37_Witness ==
    /\ mode_set = [outdoor |-> "Cleaning", indoor |-> "Sulfur"]
    /\ mode_got = mode_set
    /\ status_reg = 219

(***************************************************************************)
(* Properties of the publish/subscribe wrappers                            *)
(***************************************************************************)
RegsOf(rs, s) == {r \in rs : r.owner = s}

\* C5: furi/pubsub.rs.  Once a Subscription has been dropped the host holds
\* no registration made for it, and no event published from then on runs
\* its callback.
C5_DropDeregisters ==
    /\ [](\A s \in Subs : subs[s].state = "dropped" => RegsOf(regs, s) = {})
    /\ [][\A s \in Subs : subs[s].state = "dropped" => calls'[s] = calls[s]]_vars

\* an event was published on the bus of a dropped Subscription whose
\* callback is still alive and had run once before the drop
C5_Witness ==
    /\ lateEvent
    /\ subs[1].state = "dropped" /\ subs[2].state = "none"
    /\ cbState[1] = "alive" /\ calls[1] = 1
    /\ pubCount[subs[1].pubsub] = 2

C7_MainDeregisters ==
    npc = "returned" => ~\E r \in regs : r.bus = "power" /\ r.owner = MAIN

\* C8: whenever the host holds a registration, the callback object whose
\* address it holds is alive.
C8_CallbackOutlivesRegistration == \A r \in regs : cbState[r.ctx] = "alive"

\* C9: furi/pubsub.rs.  No live Subscription has a freed bus; the bus of the
\* OwnedPubSub is freed once, by the drop of the OwnedPubSub and by nothing
\* else, and then every Subscription made from it has been dropped and has
\* left no registration; the borrowed storage bus is never freed.
C9_BusOutlivesSubscriptions ==
    /\ \A s \in Subs : subs[s].state = "live" => busState[subs[s].pubsub] # "freed"
    /\ freeCount = (IF owned = "dropped" THEN 1 ELSE 0)
    /\ (busState["owned"] = "freed") = (owned = "dropped")
    /\ busState["owned"] = "freed" =>
          /\ \A s \in Subs : subs[s].pubsub = "owned" => subs[s].state = "dropped"
          /\ OnBus("owned") = {}
    /\ busState["storage"] = "host"

\* the owned bus was freed after a Subscription to it had received an event
\* and had been dropped
C9_Witness ==
    /\ busState["owned"] = "freed"
    /\ \E s \in Subs : subs[s].pubsub = "owned" /\ subs[s].state = "dropped" /\ calls[s] = 1

\* C34: furi/pubsub.rs.  The token a Subscription got from subscribe goes to
\* the host's unsubscribe once, with the bus it came from: the drop of a
\* live Subscription removes the one registration that has its token on its
\* bus, a dropped Subscription stays dropped and unchanged, and nothing else
\* takes a registration away.
C34_TokenUnsubscribedOnce ==
    [][/\ \A s \in Subs :
            (subs[s].state = "live" /\ subs'[s].state = "dropped") =>
               \E r \in regs :
                  /\ r.owner = s /\ r.bus = subs[s].pubsub /\ r.token = subs[s].raw
                  /\ regs' = regs \ {r}
       /\ \A s \in Subs : subs[s].state = "dropped" => subs'[s] = subs[s]
       /\ (regs' \subseteq regs /\ regs' # regs) =>
             \E s \in Subs : subs[s].state = "live" /\ subs'[s].state = "dropped"]_vars

\* a Subscription to the owned bus was dropped, and the host gave its token
\* (the address of the item) to the next Subscription, made on the storage
\* bus and live
C34_Witness ==
    /\ subs[1].state = "dropped" /\ subs[1].pubsub = "owned"
    /\ subs[2].state = "live" /\ subs[2].pubsub = "storage"
    /\ subs[1].raw = subs[2].raw
    /\ Cardinality(regs) = 1

====
